---- MODULE Spec2Model ----
(***************************************************************************)
(* Model of the reMarket front end's API access layer:                     *)
(*   reMarket-FrontEnd/api.ts          (requests, login, logout)           *)
(*   reMarket-FrontEnd/lib/error-utils (AppError, handleApiError,          *)
(*                                      withRetry)                         *)
(*                                                                         *)
(* JavaScript values are records tagged by t.  A JavaScript string is a    *)
(* sequence of literal pieces, so that template strings and join() are     *)
(* concatenations.                                                         *)
(***************************************************************************)
EXTENDS Integers, Sequences, FiniteSets, TLC

VARIABLES
    token,   \* localStorage['token']: the stored credential, or NoToken
    call,    \* the API call in flight, or Idle
    last,    \* what the last settled API call surfaced to its caller
    rt,      \* the state of one withRetry(operation, maxRetries, delay) run
    px,      \* one response or fetch failure put through an operation (pure checks)
    cc,      \* the API calls in flight when several callers run at once
    vh,      \* the state of the validation hooks of one form
    dlg,     \* one ConfirmDialog: its props and what its handlers called
    sell,    \* the sell page: its images, pending files and submit
    edit,    \* the edit page: its images and the upload in flight
    ml,      \* the my-listings page: its listings and requests in flight
    la       \* one ListingActions: its dialogs and callbacks in flight

\* The state of the pages and components
ui == <<dlg, sell, edit, ml, la>>

\* The state of the components other than the API layer
ext == <<cc, vh, ui>>

vars == <<token, call, last, rt, px, cc, vh, dlg, sell, edit, ml, la>>

----------------------------------------------------------------------------
(* Bounds *)

\* number of distinct access tokens the backend issues
MaxTokens == 2
\* largest maxRetries passed to withRetry
MaxRetriesArg == 4
\* number of API calls that can be in flight at once
MaxInFlight == 2
\* number of timeouts a validation hook sets
MaxTimers == 3
\* the time, in ms, up to which the clock of the validation hooks runs
MaxClock == 400
\* Files a page accepts over all uploads; on the edit page the images the
\* listing had count too
MaxFiles == 7
\* Milliseconds that pass while the sell page is used
MaxNow == 1
\* Times the user submits the sell form
MaxSubmits == 3

----------------------------------------------------------------------------
(* JavaScript values *)

Undefined == [t |-> "undefined"]
Null == [t |-> "null"]
Str(pieces) == [t |-> "string", s |-> pieces]
S(lit) == Str(<<lit>>)
Num(n) == [t |-> "number", n |-> n]
Bool(b) == [t |-> "boolean", b |-> b]
Arr(items) == [t |-> "array", items |-> items]

IsNullish(v) == v.t \in {"undefined", "null"}

\* ToBoolean
Truthy(v) ==
    CASE v.t \in {"undefined", "null"} -> FALSE
      [] v.t = "string" -> \E i \in 1..Len(v.s) : v.s[i] # ""
      [] v.t = "number" -> v.n # 0
      [] v.t = "boolean" -> v.b
      [] OTHER -> TRUE

\* a || b
OrElse(a, b) == IF Truthy(a) THEN a ELSE b

\* v.f for a non-nullish v (a property an object lacks reads as undefined)
Get(v, f) == IF f \in DOMAIN v THEN v[f] ELSE Undefined

\* An Error instance.  ctor is the class: "AppError", "TypeError",
\* "SyntaxError" or "Error".
MkError(ctor, name, message, status, code, details) ==
    [t |-> "error", ctor |-> ctor, name |-> S(name), message |-> message,
     status |-> status, code |-> code, details |-> details]

JsError(ctor, lit) == MkError(ctor, ctor, S(lit), Undefined, Undefined, Undefined)

InstanceOfError(v) == v.t = "error"
InstanceOf(v, ctor) == v.t = "error" /\ v.ctor = ctor

\* The literal pieces that contain a given substring (String.prototype.includes
\* on the strings that occur in the model).
PiecesWith(sub) ==
    CASE sub = "fetch" -> {"Failed to fetch", "fetch failed", "fetch timeout"}
      [] sub = "timeout" -> {"timeout", "timeout occurred", "fetch timeout"}
      [] sub = "Not authenticated" -> {"Not authenticated"}
      [] sub = "Forbidden" -> {"Forbidden", "Forbidden access"}
      [] sub = "403" -> {}
      [] sub = "Not found" -> {"Not found"}
      [] sub = "404" -> {}
      [] sub = "Error:" -> {}
      [] OTHER -> {}

Includes(str, sub) == \E i \in 1..Len(str.s) : str.s[i] \in PiecesWith(sub)

\* message.length < 100: every message of the model is a short literal
ShorterThan100(str) == Len(str.s) <= 1

\* String(value), as used by new Error(String(error)) and by the Error constructor
ToStr(v) ==
    CASE v.t = "string" -> v
      [] v.t = "undefined" -> S("undefined")
      [] v.t = "null" -> S("null")
      [] v.t = "array" ->
            Str([i \in 1..(2 * Len(v.items) - 1) |->
                    IF i % 2 = 1 THEN "[object Object]" ELSE ","])
      [] v.t = "error" -> Str(<<v.name.s[1], ": ">> \o v.message.s)
      [] OTHER -> S("[object Object]")

----------------------------------------------------------------------------
(* error-utils *)

ERROR_MESSAGES ==
    [NETWORK_ERROR |-> S("Unable to connect to the server. Please check your internet connection and try again."),
     TIMEOUT_ERROR |-> S("The request took too long to complete. Please try again."),
     AUTH_REQUIRED |-> S("You need to be logged in to perform this action."),
     AUTH_EXPIRED |-> S("Your session has expired. Please log in again."),
     FORBIDDEN |-> S("You don't have permission to perform this action."),
     VALIDATION_ERROR |-> S("Please check your input and try again."),
     FILE_TOO_LARGE |-> S("File is too large. Please choose a smaller file."),
     PRODUCT_NOT_FOUND |-> S("Listing not found. It may have been deleted or moved."),
     GENERIC_ERROR |-> S("Something went wrong. Please try again."),
     SERVER_ERROR |-> S("Server error. Please try again later."),
     UNKNOWN_ERROR |-> S("An unexpected error occurred. Please try again.")]

TooManyRequests == S("Too many requests. Please wait a moment and try again.")

\* new AppError(message, status, code, details)
createApiError_swapped(message, status, code, details) ==
    MkError("AppError", "AppError", ToStr(message), status, details, code)
createApiError(message, status, code, details) ==
    MkError("AppError", "AppError", ToStr(message), status, code, details)

getErrorMessage(error) ==
    IF InstanceOf(error, "AppError") THEN error.message
    ELSE IF InstanceOfError(error) THEN
        IF Includes(error.message, "fetch") THEN ERROR_MESSAGES.NETWORK_ERROR
        ELSE IF Includes(error.message, "timeout") THEN ERROR_MESSAGES.TIMEOUT_ERROR
        ELSE IF Includes(error.message, "Not authenticated") THEN ERROR_MESSAGES.AUTH_REQUIRED
        ELSE IF Includes(error.message, "Forbidden") \/ Includes(error.message, "403")
            THEN ERROR_MESSAGES.FORBIDDEN
        ELSE IF Includes(error.message, "Not found") \/ Includes(error.message, "404")
            THEN ERROR_MESSAGES.PRODUCT_NOT_FOUND
        ELSE IF ShorterThan100(error.message) /\ ~Includes(error.message, "Error:")
            THEN error.message
        ELSE ERROR_MESSAGES.GENERIC_ERROR
    ELSE ERROR_MESSAGES.GENERIC_ERROR

\* status is a number; defaultMessage may be undefined
getErrorMessageFromStatus_no413(status, defaultMessage) ==
    CASE status.n \in {400, 422} -> ERROR_MESSAGES.VALIDATION_ERROR
      [] status.n = 401 -> ERROR_MESSAGES.AUTH_EXPIRED
      [] status.n = 403 -> ERROR_MESSAGES.FORBIDDEN
      [] status.n = 404 -> ERROR_MESSAGES.PRODUCT_NOT_FOUND
      [] status.n = 429 -> TooManyRequests
      [] status.n \in {500, 502, 503, 504} -> ERROR_MESSAGES.SERVER_ERROR
      [] OTHER -> OrElse(defaultMessage, ERROR_MESSAGES.GENERIC_ERROR)
getErrorMessageFromStatus(status, defaultMessage) ==
    CASE status.n \in {400, 422} -> ERROR_MESSAGES.VALIDATION_ERROR
      [] status.n = 401 -> ERROR_MESSAGES.AUTH_EXPIRED
      [] status.n = 403 -> ERROR_MESSAGES.FORBIDDEN
      [] status.n = 404 -> ERROR_MESSAGES.PRODUCT_NOT_FOUND
      [] status.n = 413 -> ERROR_MESSAGES.FILE_TOO_LARGE
      [] status.n = 429 -> TooManyRequests
      [] status.n \in {500, 502, 503, 504} -> ERROR_MESSAGES.SERVER_ERROR
      [] OTHER -> OrElse(defaultMessage, ERROR_MESSAGES.GENERIC_ERROR)

\* The TypeError the engine raises when a property of null/undefined is read
NullishPropertyRead == JsError("TypeError", "Cannot read properties of null")

\* What `throw handleApiError(error)` throws: the AppError the function
\* returns, or the TypeError raised while it evaluates error.name on a
\* null/undefined argument.
handleApiError(error) ==
    IF InstanceOf(error, "AppError") THEN error
    ELSE IF InstanceOf(error, "TypeError") /\ Includes(error.message, "fetch")
        THEN createApiError(ERROR_MESSAGES.NETWORK_ERROR, Num(0), S("NETWORK_ERROR"), Undefined)
    ELSE IF IsNullish(error) THEN NullishPropertyRead
    ELSE IF Get(error, "name") = S("AbortError")
            \/ (Truthy(Get(error, "message")) /\ Includes(Get(error, "message"), "timeout"))
        THEN createApiError(ERROR_MESSAGES.TIMEOUT_ERROR, Num(0), S("TIMEOUT_ERROR"), Undefined)
    ELSE IF Truthy(Get(error, "status")) /\ Truthy(Get(error, "message"))
        THEN createApiError(getErrorMessageFromStatus(Get(error, "status"), Get(error, "message")),
                            Get(error, "status"), Get(error, "code"), Get(error, "details"))
    ELSE IF InstanceOfError(error)
        THEN createApiError(getErrorMessage(error), Undefined, S("GENERIC_ERROR"), Undefined)
    ELSE createApiError(ERROR_MESSAGES.UNKNOWN_ERROR, Undefined, S("UNKNOWN_ERROR"), Undefined)

----------------------------------------------------------------------------
(* api.ts: responses and handleResponse *)

\* A parsed JSON object with the given detail and code members
ErrorBody(detail, code) == [t |-> "object", detail |-> detail, code |-> code]

\* One entry of a 422 detail array
FieldError(msg, message) == [t |-> "object", msg |-> msg, message |-> message]

\* Response bodies: kind "empty" and "text" do not parse as JSON
EmptyBody == [kind |-> "empty", val |-> Undefined]
TextBody == [kind |-> "text", val |-> Undefined]
JsonBody(v) == [kind |-> "json", val |-> v]

\* response.ok
Ok(response) == response.status >= 200 /\ response.status <= 299

\* response.json(): the parsed value, or a SyntaxError
Json(response) ==
    IF response.body.kind = "json"
        THEN [threw |-> FALSE, val |-> response.body.val]
        ELSE [threw |-> TRUE, val |-> JsError("SyntaxError", "Unexpected end of JSON input")]

Returns(v) == [threw |-> FALSE, val |-> v]
Throws(e) == [threw |-> TRUE, val |-> e]

\* err.msg || err.message
FieldMessage_messageFirst(err) == OrElse(Get(err, "message"), Get(err, "msg"))
FieldMessage(err) == OrElse(Get(err, "msg"), Get(err, "message"))

\* errorData.detail.map(err => err.msg || err.message).join(', ')
RECURSIVE JoinMsgs(_)
JoinMsgs(items) ==
    IF Len(items) = 0 THEN <<>>
    ELSE LET m == FieldMessage(Head(items))
             piece == IF IsNullish(m) THEN <<"">> ELSE ToStr(m).s
         IN IF Len(items) = 1 THEN piece
            ELSE piece \o <<", ">> \o JoinMsgs(Tail(items))

\* `e instanceof Error && (e as any).status`: e is one of the errors thrown in the try block
Rethrown_never(e) == FALSE
Rethrown(e) == InstanceOfError(e) /\ Truthy(Get(e, "status"))

\* The catch block of the !response.ok branch (api.ts lines 157-165)
CatchNotOk(e, response) ==
    IF Rethrown(e)
        THEN e
        ELSE createApiError(getErrorMessageFromStatus(Num(response.status), Undefined),
                            Num(response.status), S("PARSE_ERROR"), Undefined)

\* `response.status === 401 && errorData.detail === "Incorrect username or password"`
CredentialMismatch_never(response, detail) == FALSE
CredentialMismatch(response, detail) ==
    response.status = 401 /\ detail = S("Incorrect username or password")

\* The try block of the !response.ok branch: the value it throws
TryNotOk(response) ==
    LET parsed == Json(response)
        errorData == parsed.val
        detail == Get(errorData, "detail")
    IN
    IF parsed.threw THEN parsed.val
    ELSE IF IsNullish(errorData) THEN NullishPropertyRead
    ELSE IF CredentialMismatch(response, detail)
        THEN createApiError(
                S("Invalid username or password. Please try again or sign up for an account."),
                Num(401), S("INVALID_CREDENTIALS"), Undefined)
    ELSE IF response.status = 422 /\ Truthy(detail)
        THEN LET validationErrors ==
                     IF detail.t = "array" THEN Str(JoinMsgs(detail.items)) ELSE detail
             IN createApiError(Str(<<"Validation error: ">> \o ToStr(validationErrors).s),
                               Num(422), S("VALIDATION_ERROR"), detail)
    ELSE createApiError(OrElse(detail, getErrorMessageFromStatus(Num(response.status), Undefined)),
                        Num(response.status), Get(errorData, "code"), Undefined)

\* `response.status === 204` in the catch block of the success branch
NoContent_any2xx(response) == TRUE
NoContent(response) == response.status = 204

handleResponse(response) ==
    IF ~Ok(response)
        THEN Throws(CatchNotOk(TryNotOk(response), response))
        ELSE LET parsed == Json(response) IN
             IF ~parsed.threw THEN Returns(parsed.val)
             ELSE IF NoContent(response) THEN Returns(Null)
             ELSE Throws(createApiError(S("Invalid response format"),
                                        Num(response.status), S("PARSE_ERROR"), Undefined))

----------------------------------------------------------------------------
(* api.ts: the exported operations *)

\* Operations that read the stored credential before they fetch
AuthOps ==
    {"getCurrentUser", "updateUserProfile", "uploadProfileImage", "createProduct",
     "getMyProducts", "updateProduct", "deleteProduct", "toggleProductSoldStatus",
     "uploadProductImages", "deleteProductImage"}

\* Operations that fetch without a credential and rethrow through handleApiError
PublicOps == {"login", "registerUser", "getUser", "getCategories", "getProducts", "getProduct"}

\* Operations with their own catch block, which swallows every failure
QuietOps == {"getUserListingsCount", "checkApiConnection"}

Ops == AuthOps \cup PublicOps \cup QuietOps

\* localStorage.getItem('token') is null when nothing is stored
NoToken == Null

\* The access tokens the backend issues
Tokens == {Str(<<"tok", ToString(i)>>) : i \in 1..MaxTokens}

\* getToken(), in the browser (typeof window !== 'undefined')
getToken == token

\* `if (!token)`: no usable credential was read
MissingToken_never(tk) == FALSE
MissingToken(tk) == ~Truthy(tk)

\* localStorage.removeItem('token'): what is stored afterwards
removeItem == NoToken

\* localStorage.setItem('token', value) stores String(value)
setItem_skipped(value) == Undefined
setItem(value) == ToStr(value)

\* What fetch can reject with
FetchFailures ==
    {JsError("TypeError", "Failed to fetch"),
     JsError("TypeError", "Load failed"),
     JsError("TypeError", "fetch timeout"),
     MkError("Error", "AbortError", S("The user aborted a request."), Undefined, Undefined, Undefined),
     JsError("Error", "timeout occurred"),
     JsError("Error", "Generic error message"),
     S("string error"),
     [t |-> "object", status |-> Num(400), message |-> S("Validation failed"),
      code |-> S("VALIDATION_ERROR")],
     [t |-> "object", status |-> Num(409), message |-> S("Already sold"),
      code |-> S("CONFLICT")],
     Null,
     Undefined}

NotOkStatuses == {400, 401, 403, 404, 413, 422, 429, 500, 502, 503, 504, 418}
OkStatuses == {200, 201, 204}

\* Error bodies of the backend
ErrorBodies ==
    {EmptyBody, TextBody, JsonBody(Null),
     JsonBody([t |-> "object"]),
     JsonBody(ErrorBody(S("Incorrect username or password"), Undefined)),
     JsonBody(ErrorBody(S("Could not validate credentials"), Undefined)),
     JsonBody(ErrorBody(S("Not allowed"), S("CUSTOM_CODE"))),
     JsonBody(ErrorBody(Arr(<<FieldError(S("field required"), Undefined),
                              FieldError(Undefined, S("value is not a valid number"))>>),
                        Undefined)),
     JsonBody(ErrorBody(Arr(<<FieldError(S("ensure this value is greater than 0"),
                                         S("price: invalid")),
                              FieldError(Undefined, Undefined),
                              FieldError(S("field required"), Undefined)>>),
                        Undefined))}

\* The JSON a 2xx response to op carries (AuthResponse for login)
SuccessBodies(op) ==
    {EmptyBody, TextBody, JsonBody(Null)} \cup
    CASE op = "login" ->
            {JsonBody([t |-> "object", access_token |-> tk, token_type |-> S("bearer")]) :
                tk \in Tokens}
      [] op = "uploadProfileImage" -> {JsonBody([t |-> "object", url |-> S("/uploads/a.png")])}
      [] op = "getUserListingsCount" ->
            {JsonBody([t |-> "object", count |-> Num(n)]) : n \in {0, 2}}
            \cup {JsonBody([t |-> "object"])}
      [] OTHER -> {JsonBody([t |-> "object", id |-> Num(1)])}

Responses(op) ==
    {[status |-> st, body |-> b] : st \in NotOkStatuses, b \in ErrorBodies}
    \cup {[status |-> st, body |-> b] : st \in OkStatuses, b \in SuccessBodies(op)}

\* How a call settles: the promise resolves with val or rejects with val;
\* store is the value written to localStorage['token'], or Undefined for none.
Resolved(v) == [settled |-> "resolved", val |-> v, store |-> Undefined]
Rejected_clearsToken(e) == [settled |-> "rejected", val |-> e, store |-> NoToken]
Rejected(e) == [settled |-> "rejected", val |-> e, store |-> Undefined]

\* The statements after `await handleResponse(response)`, given its value
AfterResponse_alwaysStores(op, data) ==
    IF IsNullish(data) THEN Returns(data)
    ELSE [threw |-> FALSE, val |-> data, store |-> setItem(Get(data, "access_token"))]
AfterResponse(op, data) ==
    CASE op = "login" ->
            IF IsNullish(data) THEN Throws(NullishPropertyRead)
            ELSE [threw |-> FALSE, val |-> data, store |-> setItem(Get(data, "access_token"))]
      [] op = "uploadProfileImage" ->
            IF IsNullish(data) THEN Throws(NullishPropertyRead)
            ELSE Returns(Get(data, "url"))
      [] op \in {"deleteProduct", "deleteProductImage"} -> Returns(Undefined)
      [] OTHER -> Returns(data)

\* try { ... await handleResponse(response) ... } catch (error) { throw handleApiError(error) }
OnResponse(op, response) ==
    LET r == handleResponse(response) IN
    IF r.threw THEN Rejected(handleApiError(r.val))
    ELSE LET a == AfterResponse(op, r.val) IN
         IF a.threw THEN Rejected(handleApiError(a.val))
         ELSE [settled |-> "resolved", val |-> a.val, store |-> Get(a, "store")]

\* fetch rejected with error: the catch block
OnFetchFailure(op, error) == Rejected(handleApiError(error))

\* `data.count || 0`
CountOrZero_noDefault(data) == Get(data, "count")
CountOrZero(data) == OrElse(Get(data, "count"), Num(0))

\* getUserListingsCount, after fetch
ListingsCountOnResponse(response) ==
    IF ~Ok(response) THEN Resolved(Num(0))
    ELSE LET r == handleResponse(response) IN
         IF r.threw \/ IsNullish(r.val) THEN Resolved(Num(0))
         ELSE Resolved(CountOrZero(r.val))

\* checkApiConnection, after fetch
CheckConnectionOnResponse(response) == Resolved(Bool(Ok(response)))

QuietOnResponse(op, response) ==
    IF op = "getUserListingsCount" THEN ListingsCountOnResponse(response)
    ELSE CheckConnectionOnResponse(response)

QuietOnFetchFailure(op, error) ==
    IF op = "getUserListingsCount" THEN Resolved(Num(0)) ELSE Resolved(Bool(FALSE))

----------------------------------------------------------------------------
(* The API layer as a state machine: one caller, one call in flight *)

Idle == [phase |-> "idle"]
NoCall == [op |-> "none"]

\* The record of the call that settled last, until the caller makes its next
\* call (logout, which is synchronous, is recorded too): tok is what getToken() returned to it
\* (Undefined when the operation does not read the credential), fetches the
\* number of fetch calls it made, http the status of the response it
\* received (0 when none).
Settle(op, tok, fetches, http, outcome) ==
    [op |-> op, tok |-> tok, fetches |-> fetches, http |-> http,
     settled |-> outcome.settled, val |-> outcome.val]

\* An operation of AuthOps is called: `const token = getToken(); if (!token) throw ...`
\* and otherwise the request is sent with that token.
StartAuth(op) ==
    /\ call = Idle
    /\ op \in AuthOps
    /\ LET tk == getToken IN
       IF MissingToken(tk)
         THEN /\ last' = Settle(op, tk, 0, 0,
                    Rejected(handleApiError(
                        createApiError(S("Not authenticated"), Num(401), S("AUTH_REQUIRED"), Undefined))))
              /\ call' = call
         ELSE /\ call' = [phase |-> "inflight", op |-> op, tok |-> tk, fetches |-> 1]
              /\ last' = NoCall
    /\ UNCHANGED <<token, rt, px, ext>>

\* An operation that sends its request without reading the credential
StartPublic(op) ==
    /\ call = Idle
    /\ op \in PublicOps \cup QuietOps
    /\ call' = [phase |-> "inflight", op |-> op, tok |-> Undefined, fetches |-> 1]
    /\ last' = NoCall
    /\ UNCHANGED <<token, rt, px, ext>>

\* fetch rejects
FetchRejects(error) ==
    /\ call.phase = "inflight"
    /\ LET out == IF call.op \in QuietOps THEN QuietOnFetchFailure(call.op, error)
                  ELSE OnFetchFailure(call.op, error)
       IN last' = Settle(call.op, call.tok, call.fetches, 0, out)
    /\ call' = Idle
    /\ UNCHANGED <<token, rt, px, ext>>

\* fetch resolves with a response
ResponseArrives(response) ==
    /\ call.phase = "inflight"
    /\ response \in Responses(call.op)
    /\ LET out == IF call.op \in QuietOps THEN QuietOnResponse(call.op, response)
                  ELSE OnResponse(call.op, response)
       IN /\ last' = Settle(call.op, call.tok, call.fetches, response.status, out)
          /\ token' = IF out.store = Undefined THEN token ELSE out.store
    /\ call' = Idle
    /\ UNCHANGED <<rt, px, ext>>

\* logout(): localStorage.removeItem('token')
logout ==
    /\ token' = removeItem
    /\ last' = Settle("logout", Undefined, 0, 0, Resolved(Undefined))
    /\ UNCHANGED <<call, rt, px, ext>>

AllResponses == UNION {Responses(op) : op \in Ops}

ApiNext ==
    \/ \E op \in AuthOps : StartAuth(op)
    \/ \E op \in PublicOps \cup QuietOps : StartPublic(op)
    \/ \E error \in FetchFailures : FetchRejects(error)
    \/ \E response \in AllResponses : ResponseArrives(response)
    \/ logout

RtIdle == [pc |-> "idle"]
PxIdle == [stage |-> "none"]

\* The slots of the calls in flight
Slots == 1..MaxInFlight
CcIdle == [i \in Slots |-> Idle]

\* No validation hook is mounted
VhIdle == [mounted |-> FALSE]

\* No page or component is mounted
NotMounted == [mounted |-> FALSE]

\* Nothing of the API layer or of the hooks is running
ApiIdle ==
    /\ token = NoToken
    /\ call = Idle
    /\ last = NoCall
    /\ rt = RtIdle
    /\ px = PxIdle
    /\ cc = CcIdle
    /\ vh = VhIdle

UiIdle ==
    /\ dlg = NotMounted
    /\ sell = NotMounted
    /\ edit = NotMounted
    /\ ml = NotMounted
    /\ la = NotMounted

Init ==
    /\ token = NoToken
    /\ call = Idle
    /\ last = NoCall
    /\ rt = RtIdle
    /\ px = PxIdle
    /\ cc = CcIdle
    /\ UiIdle
    /\ vh = VhIdle

Next == ApiNext

Spec == Init /\ [][Next]_vars

----------------------------------------------------------------------------
(* error-utils: withRetry(operation, maxRetries, delay) *)

\* What one invocation of operation() can do: resolve with a value or reject
AppErr(status, code) == createApiError(S("Request failed"), status, code, Undefined)

OperationFailures ==
    {AppErr(Num(401), S("AUTH_REQUIRED")),
     AppErr(Num(403), Undefined),
     AppErr(Num(404), Undefined),
     AppErr(Num(500), Undefined),
     AppErr(Num(0), S("NETWORK_ERROR")),
     JsError("Error", "First failure"),
     JsError("Error", "Second failure"),
     S("string error"),
     Null,
     [t |-> "object", status |-> Num(401), message |-> S("Unauthorized")]}

OperationOutcomes ==
    {Returns(S("success")), Returns(Undefined)} \cup {Throws(e) : e \in OperationFailures}

\* The arguments withRetry is called with
RetryCounts == (-1)..MaxRetriesArg
Delays == {10, 1000}

\* lastError = error instanceof Error ? error : new Error(String(error))
AsError(error) ==
    IF InstanceOfError(error) THEN error
    ELSE MkError("Error", "Error", ToStr(error), Undefined, Undefined, Undefined)

\* The value assigned to lastError in the catch block
CaughtError_keepsFirst(previous, error) ==
    IF previous = Undefined THEN AsError(error) ELSE previous
CaughtError(previous, error) == AsError(error)

\* `if (attempt === maxRetries) break`
LastAttempt(attempt, maxRetries) == attempt = maxRetries

\* `if (error instanceof AppError) if (status === 401 || 403 || 404) break`
NoRetry_without404(error) ==
    InstanceOf(error, "AppError") /\ error.status \in {Num(401), Num(403)}
NoRetry(error) ==
    InstanceOf(error, "AppError") /\ error.status \in {Num(401), Num(403), Num(404)}

\* setTimeout(resolve, delay * attempt)
Backoff_doubling(delay, attempt) == delay * (2 ^ (attempt - 1))
Backoff(delay, attempt) == delay * attempt

\* After the loop: throw handleApiError(lastError!)
AfterLoop(r) ==
    [r EXCEPT !.pc = "done", !.settled = "rejected", !.result = handleApiError(r.lastError)]

\* The loop test `attempt <= maxRetries`
LoopTest(r) == IF r.attempt <= r.maxRetries THEN [r EXCEPT !.pc = "call"] ELSE AfterLoop(r)

\* `return await operation()` when the operation resolves
OperationResolved_notReturned(r, value) ==
    IF LastAttempt(r.attempt, r.maxRetries) THEN AfterLoop(r)
    ELSE LoopTest([r EXCEPT !.attempt = r.attempt + 1])
OperationResolved(r, value) ==
    [r EXCEPT !.pc = "done", !.settled = "resolved", !.result = value]

\* The catch block when the operation rejects
OperationRejected(r, error) ==
    LET r1 == [r EXCEPT !.lastError = CaughtError(r.lastError, error)] IN
    IF LastAttempt(r1.attempt, r1.maxRetries) THEN AfterLoop(r1)
    ELSE IF NoRetry(error) THEN AfterLoop(r1)
    ELSE [r1 EXCEPT !.pc = "wait", !.waits = Append(r1.waits, Backoff(r1.delay, r1.attempt))]

\* withRetry is called: lastError is unassigned, attempt = 1, the loop test runs
withRetry(maxRetries, delay) ==
    /\ rt.pc = "idle"
    /\ rt' = LoopTest([pc |-> "start", maxRetries |-> maxRetries, delay |-> delay,
                       attempt |-> 1, lastError |-> Undefined,
                       hist |-> <<>>, waits |-> <<>>,
                       settled |-> "pending", result |-> Undefined])
    /\ UNCHANGED <<token, call, last, px, ext>>

\* operation() is invoked and settles; hist records every invocation's outcome
OperationSettles(outcome) ==
    /\ rt.pc = "call"
    /\ LET r == [rt EXCEPT !.hist = Append(rt.hist, outcome)] IN
       rt' = IF outcome.threw THEN OperationRejected(r, outcome.val)
             ELSE OperationResolved(r, outcome.val)
    /\ UNCHANGED <<token, call, last, px, ext>>

\* The backoff timer fires: attempt++ and the loop test
BackoffElapses ==
    /\ rt.pc = "wait"
    /\ rt' = LoopTest([rt EXCEPT !.attempt = rt.attempt + 1])
    /\ UNCHANGED <<token, call, last, px, ext>>

RetryNext ==
    \/ \E m \in RetryCounts, d \in Delays : withRetry(m, d)
    \/ \E outcome \in OperationOutcomes : OperationSettles(outcome)
    \/ BackoffElapses

RetrySpec == Init /\ [][RetryNext]_vars

----------------------------------------------------------------------------
(* Claims about the API layer, checked under Spec *)

Failed == last.op # "none" /\ last.settled = "rejected"
Code(e) == Get(e, "code")

\* C1 (as stated): every failure surfaced to a caller is an AppError, whatever
\* fetch or response parsing throws.
C1_EveryFailureIsAppError == Failed => InstanceOf(last.val, "AppError")

\* C2: an authenticated operation called while no credential is stored fails
\* with AUTH_REQUIRED (status 401) and issues no network request.
C2_AuthRequiredWithoutFetch ==
    /\ (last.op \in AuthOps /\ last.tok = NoToken) =>
          /\ Failed
          /\ InstanceOf(last.val, "AppError")
          /\ Code(last.val) = S("AUTH_REQUIRED")
          /\ last.fetches = 0
          /\ last.http = 0
    /\ (call.phase = "inflight" /\ call.op \in AuthOps) => call.tok \in Tokens

C2_Witness ==
    /\ last.op \in AuthOps /\ last.tok = NoToken
    /\ Code(last.val) = S("AUTH_REQUIRED") /\ last.fetches = 0

LoginSucceeded == last.op = "login" /\ last.settled = "resolved"
LoggedOut == last.op = "logout"

\* C3: when a login resolves the stored credential is the access_token of its
\* response, when logout returns nothing is stored, and no other step of a
\* sequence of logins and logouts changes what is stored: the single stored
\* credential is the token of the last successful login since the last logout.
C3_CredentialFollowsLoginLogout ==
    [][ /\ LoginSucceeded' => token' = Get(last'.val, "access_token")
        /\ LoggedOut' => token' = NoToken
        /\ (last'.op \in {"login", "logout", "none"} /\ ~LoginSucceeded' /\ ~LoggedOut')
              => token' = token
        /\ token' \in Tokens \cup {NoToken} ]_vars

C3_Witness ==
    /\ LoginSucceeded
    /\ token \in Tokens
    /\ token = Get(last.val, "access_token")

\* C4: the stored credential changes only in a step in which a login resolves
\* or logout runs; every other settled call, whatever its outcome, leaves it.
C4_OnlyLoginAndLogoutWrite ==
    [][ token' # token => (LoginSucceeded' \/ LoggedOut') ]_vars

C4_Witness ==
    /\ Failed
    /\ last.op \in AuthOps
    /\ last.http = 401
    /\ token \in Tokens

Got401NotMismatch ==
    /\ Failed
    /\ last.op \in AuthOps
    /\ last.http = 401
    /\ Code(last.val) # S("INVALID_CREDENTIALS")

\* C5 (as stated): once an authenticated request has surfaced a 401 failure
\* that is not the credential mismatch, no credential is stored.
C5_CredentialDestroyedOn401 == Got401NotMismatch => token = NoToken

\* C5 (amended): handling a 401 response of an authenticated request leaves the
\* stored credential as it was.
C5_CredentialKeptOn401 ==
    [][ (call.phase = "inflight" /\ Got401NotMismatch') => token' = token ]_vars

C5_Witness == Got401NotMismatch /\ token \in Tokens /\ token = last.tok

----------------------------------------------------------------------------
(* Claims about withRetry, checked under RetrySpec *)

Running == rt.pc # "idle"
Invocations == Len(rt.hist)

\* A Normalized Error whose status is 401, 403 or 404
TerminalFailure(e) ==
    /\ e.t = "error" /\ e.ctor = "AppError"
    /\ e.status.t = "number" /\ e.status.n \in {401, 403, 404}

RetryableFailureAt(i) == rt.hist[i].threw /\ ~TerminalFailure(rt.hist[i].val)
TerminalFailureAt(i) == rt.hist[i].threw /\ TerminalFailure(rt.hist[i].val)

\* C6: with maxRetries >= 1 the operation is invoked one attempt at a time, at
\* most maxRetries times, never after an invocation succeeded; the run resolves
\* with the value of the first success, and a retryable failure before the last
\* attempt never ends the run (k retryable failures then a success: k+1 calls).
C6_BoundedAttemptsFirstSuccess ==
    (Running /\ rt.maxRetries >= 1) =>
        /\ Invocations <= rt.maxRetries
        /\ rt.attempt = IF rt.pc = "call" THEN Invocations + 1 ELSE Invocations
        /\ \A i \in 1..(Invocations - 1) : rt.hist[i].threw
        /\ (Invocations >= 1 /\ ~rt.hist[Invocations].threw) =>
              /\ rt.pc = "done"
              /\ rt.settled = "resolved"
              /\ rt.result = rt.hist[Invocations].val
        /\ rt.settled = "resolved" => (Invocations >= 1 /\ ~rt.hist[Invocations].threw)
        /\ (rt.pc = "done" /\ Invocations < rt.maxRetries /\ rt.hist[Invocations].threw)
              => TerminalFailureAt(Invocations)

C6_Witness ==
    /\ rt.pc = "done" /\ rt.settled = "resolved"
    /\ rt.maxRetries = 3 /\ rt.delay = 10
    /\ Invocations = 3
    /\ RetryableFailureAt(1) /\ RetryableFailureAt(2)
    /\ rt.result = S("success")

\* C7: a failure that is an AppError with status 401, 403 or 404 ends the run on
\* whichever attempt it happens: no later invocation, no backoff wait after it,
\* and the run rejects with that same error.
C7_TerminalFailureStopsRun ==
    Running =>
        \A i \in 1..Invocations :
            TerminalFailureAt(i) =>
                /\ i = Invocations
                /\ rt.pc = "done"
                /\ rt.settled = "rejected"
                /\ rt.result = rt.hist[i].val
                /\ Len(rt.waits) = i - 1

C7_Witness ==
    /\ rt.pc = "done" /\ rt.settled = "rejected"
    /\ rt.maxRetries = 3
    /\ Invocations = 1
    /\ TerminalFailureAt(1)
    /\ rt.hist[1].val.status = Num(404)
    /\ rt.result = rt.hist[1].val

AllRetryableFailures == \A i \in 1..Invocations : RetryableFailureAt(i)

\* C8: when every invocation fails with a retryable failure the run ends exactly
\* at invocation number maxRetries and rejects with the normalization of that
\* last failure (non-Error values are wrapped in new Error(String(value)) first).
C8_ExhaustedRejectsWithLast ==
    (Running /\ rt.maxRetries >= 1 /\ AllRetryableFailures) =>
        /\ Invocations = rt.maxRetries =>
              /\ rt.pc = "done"
              /\ rt.settled = "rejected"
              /\ rt.result = handleApiError(AsError(rt.hist[Invocations].val))
        /\ rt.pc = "done" => Invocations = rt.maxRetries

C8_Witness ==
    /\ rt.pc = "done" /\ rt.settled = "rejected"
    /\ rt.maxRetries = 2
    /\ Invocations = 2
    /\ AllRetryableFailures
    /\ rt.result = handleApiError(AsError(rt.hist[2].val))
    /\ rt.result # handleApiError(AsError(rt.hist[1].val))

\* C9: the n-th backoff wait lasts delay * n and follows the n-th invocation,
\* which failed with a retryable failure and was not the last attempt; every
\* invocation of a running call but the one that ended it was followed by a
\* wait, and the invocation that ends the run (a success, a terminal failure
\* or the final attempt) is followed by none.
C9_LinearBackoff ==
    Running =>
        /\ \A n \in 1..Len(rt.waits) :
              /\ rt.waits[n] = rt.delay * n
              /\ n <= Invocations
              /\ RetryableFailureAt(n)
              /\ n < rt.maxRetries
        /\ Len(rt.waits) =
              IF rt.pc # "done" THEN Invocations
              ELSE IF Invocations = 0 THEN 0 ELSE Invocations - 1

C9_Witness ==
    /\ rt.pc = "done"
    /\ rt.maxRetries = 4 /\ rt.delay = 10
    /\ rt.waits = <<10, 20, 30>>

----------------------------------------------------------------------------
(* handleResponse as a function of the response, for every operation that     *)
(* rethrows through handleApiError                                            *)

\* What `request` surfaces for operation op when fetch resolves with response
Handle ==
    /\ px.stage = "in"
    /\ px' = [stage |-> "out", op |-> px.op, response |-> px.response,
              out |-> OnResponse(px.op, px.response)]
    /\ UNCHANGED <<token, call, last, rt, ext>>

\* What an operation with its own catch block resolves with when fetch
\* resolves with response
HandleQuiet ==
    /\ px.stage = "qin"
    /\ px' = [stage |-> "qout", op |-> px.op, response |-> px.response,
              out |-> QuietOnResponse(px.op, px.response)]
    /\ UNCHANGED <<token, call, last, rt, ext>>

\* What an operation surfaces when fetch rejects with error
HandleFailure ==
    /\ px.stage = "fin"
    /\ px' = [stage |-> "fout", op |-> px.op, error |-> px.error,
              out |-> IF px.op \in QuietOps THEN QuietOnFetchFailure(px.op, px.error)
                      ELSE OnFetchFailure(px.op, px.error)]
    /\ UNCHANGED <<token, call, last, rt, ext>>

RespInit ==
    /\ token = NoToken
    /\ call = Idle
    /\ last = NoCall
    /\ rt = RtIdle
    /\ cc = CcIdle
    /\ UiIdle
    /\ vh = VhIdle
    /\ px \in {[stage |-> "in", op |-> op, response |-> r] :
                 op \in AuthOps \cup PublicOps, r \in AllResponses}
           \cup {[stage |-> "qin", op |-> op, response |-> r] :
                 op \in QuietOps, r \in AllResponses}
           \cup {[stage |-> "fin", op |-> op, error |-> e] :
                 op \in Ops, e \in FetchFailures}
    /\ px.stage \in {"in", "qin"} => px.response \in Responses(px.op)

RespNext == Handle \/ HandleQuiet \/ HandleFailure

RespSpec == RespInit /\ [][RespNext]_vars

----------------------------------------------------------------------------
(* Claims about response handling, checked under RespSpec *)

\* The status table of the specification: default message and classification
TableMessage(status) ==
    CASE status \in {400, 422} -> S("Please check your input and try again.")
      [] status = 401 -> S("Your session has expired. Please log in again.")
      [] status = 403 -> S("You don't have permission to perform this action.")
      [] status = 404 -> S("Listing not found. It may have been deleted or moved.")
      [] status = 413 -> S("File is too large. Please choose a smaller file.")
      [] status = 429 -> S("Too many requests. Please wait a moment and try again.")
      [] status \in {500, 502, 503, 504} -> S("Server error. Please try again later.")
      [] OTHER -> S("Something went wrong. Please try again.")

TableClassification(status) ==
    CASE status \in {400, 422} -> S("VALIDATION_ERROR")
      [] status = 401 -> S("AUTH_EXPIRED")
      [] status = 403 -> S("FORBIDDEN")
      [] status = 404 -> S("PRODUCT_NOT_FOUND")
      [] status = 413 -> S("FILE_TOO_LARGE")
      [] status = 429 -> Undefined
      [] status \in {500, 502, 503, 504} -> S("SERVER_ERROR")
      [] OTHER -> S("GENERIC_ERROR")

Handled == px.stage = "out"
UnparseableFailure ==
    /\ Handled
    /\ px.response.status \in NotOkStatuses
    /\ px.response.body.kind \in {"empty", "text"}

\* C10 (as stated): a non-success response with an empty or unparseable body is
\* surfaced with the table's default message and the table's classification.
C10_TableMessageAndClassification ==
    UnparseableFailure =>
        /\ px.out.settled = "rejected"
        /\ px.out.val.message = TableMessage(px.response.status)
        /\ Code(px.out.val) = TableClassification(px.response.status)

\* C10 (amended): such a response is surfaced as an AppError with the table's
\* default message, the response's status and the classification PARSE_ERROR.
C10_TableMessageParseError ==
    UnparseableFailure =>
        /\ px.out.settled = "rejected"
        /\ InstanceOf(px.out.val, "AppError")
        /\ px.out.val.message = TableMessage(px.response.status)
        /\ px.out.val.status = Num(px.response.status)
        /\ Code(px.out.val) = S("PARSE_ERROR")

C10_Witness ==
    /\ UnparseableFailure
    /\ px.response.status = 413
    /\ px.response.body.kind = "empty"
    /\ px.out.val.message = S("File is too large. Please choose a smaller file.")
    /\ Code(px.out.val) = S("PARSE_ERROR")

----------------------------------------------------------------------------
(* 401 responses *)

SessionExpiredMessage == S("Your session has expired. Please log in again.")

\* The body of the response is JSON with detail "Incorrect username or password"
MismatchBody ==
    /\ px.response.body.kind = "json"
    /\ Get(px.response.body.val, "detail") = S("Incorrect username or password")

\* The body parses to a JSON value whose members can be read
ReadableBody == px.response.body.kind = "json" /\ ~IsNullish(px.response.body.val)

Is401NotMismatch == Handled /\ px.response.status = 401 /\ ~MismatchBody

MismatchHandled ==
    /\ px.stage \in {"out", "qout"}
    /\ px.response.status = 401
    /\ MismatchBody

SurfacedAsInvalidCredentials ==
    /\ px.out.settled = "rejected"
    /\ InstanceOf(px.out.val, "AppError")
    /\ Code(px.out.val) = S("INVALID_CREDENTIALS")
    /\ Code(px.out.val) \notin {S("AUTH_EXPIRED"), S("PARSE_ERROR")}
    /\ px.out.val.status = Num(401)
    /\ px.out.val.message # SessionExpiredMessage

\* C12 (as stated): a 401 whose body has detail "Incorrect username or password"
\* is surfaced by every API operation with classification INVALID_CREDENTIALS
\* and status 401, and a message other than the session-expired message.
C12_MismatchFromEveryOperation == MismatchHandled => SurfacedAsInvalidCredentials

\* C12 (amended): it is surfaced so by every operation that surfaces failures,
\* login or not; getUserListingsCount resolves with 0 and checkApiConnection
\* with false.
C12_MismatchFromRethrowingOperations ==
    MismatchHandled =>
        CASE px.op = "getUserListingsCount" -> px.out = Resolved(Num(0))
          [] px.op = "checkApiConnection" -> px.out = Resolved(Bool(FALSE))
          [] OTHER -> SurfacedAsInvalidCredentials

C12_Witness ==
    /\ MismatchHandled
    /\ px.op = "getCurrentUser"
    /\ Code(px.out.val) = S("INVALID_CREDENTIALS")
    /\ px.out.val.message =
          S("Invalid username or password. Please try again or sign up for an account.")

----------------------------------------------------------------------------
(* 422 responses *)

\* A 422 response whose body has a detail array of field errors has been handled
FieldErrors422 ==
    /\ Handled
    /\ px.response.status = 422
    /\ px.response.body.kind = "json"
    /\ Get(px.response.body.val, "detail").t = "array"

\* The msg of a field error, its message when it has no msg, else nothing
MsgOf(err) ==
    IF Truthy(err.msg) THEN err.msg.s[1]
    ELSE IF Truthy(err.message) THEN err.message.s[1]
    ELSE ""

\* The list of the field errors' messages joined by ", "
CommaJoined(items) ==
    [i \in 1..(2 * Len(items) - 1) |->
        IF i % 2 = 1 THEN MsgOf(items[(i + 1) \div 2]) ELSE ", "]

SurfacedAsValidationError ==
    /\ px.out.settled = "rejected"
    /\ InstanceOf(px.out.val, "AppError")
    /\ Code(px.out.val) = S("VALIDATION_ERROR")
    /\ px.out.val.status = Num(422)
    /\ px.out.val.details = px.response.body.val.detail

\* C13 (as stated): a 422 response with a detail array of field errors is
\* surfaced with the message that is the comma-joined list of the errors' msg
\* (message when msg is absent), classification VALIDATION_ERROR, status 422
\* and details equal to the array.
C13_MessageIsJoinedList ==
    FieldErrors422 =>
        /\ SurfacedAsValidationError
        /\ px.out.val.message = Str(CommaJoined(px.response.body.val.detail.items))

\* C13 (amended): the message is "Validation error: " followed by that list.
C13_MessageIsPrefixedJoinedList ==
    FieldErrors422 =>
        /\ SurfacedAsValidationError
        /\ px.out.val.message =
              Str(<<"Validation error: ">> \o CommaJoined(px.response.body.val.detail.items))

C13_Witness ==
    /\ FieldErrors422
    /\ px.out.val.message =
          Str(<<"Validation error: ", "field required", ", ", "value is not a valid number">>)
    /\ Len(px.out.val.details.items) = 2

----------------------------------------------------------------------------
(* Success responses without a JSON body *)

\* A 2xx response whose body is empty or does not parse has been handled
UnparseableSuccess ==
    /\ Handled
    /\ px.response.status \in OkStatuses
    /\ px.response.body.kind \in {"empty", "text"}

SurfacedAsParseError ==
    /\ px.out.settled = "rejected"
    /\ Code(px.out.val) = S("PARSE_ERROR")

\* C14 (as stated): a 2xx response with an empty or unparseable body makes the
\* call resolve with null, and PARSE_ERROR is produced only for a non-success
\* status with an unparseable body.
C14_Any2xxResolvesNull ==
    /\ UnparseableSuccess => px.out = Resolved(Null)
    /\ (Handled /\ SurfacedAsParseError) =>
            /\ px.response.status \in NotOkStatuses
            /\ px.response.body.kind \in {"empty", "text"}

\* C14 (amended): only a 204 response with such a body is taken as an empty
\* success: handleResponse returns null, so the call resolves with null, or with
\* undefined when the operation returns nothing (deleteProduct,
\* deleteProductImage), or fails with GENERIC_ERROR when the operation reads a
\* member of the body (login, uploadProfileImage).  Any other 2xx status with
\* such a body fails with PARSE_ERROR, that status and the message "Invalid
\* response format"; handleResponse assigns PARSE_ERROR only to a body that is
\* not a JSON object, with a status other than 204.
C14_Only204ResolvesNull ==
    /\ UnparseableSuccess =>
          IF px.response.status = 204
            THEN CASE px.op \in {"deleteProduct", "deleteProductImage"} ->
                        px.out = Resolved(Undefined)
                   [] px.op \in {"login", "uploadProfileImage"} ->
                        /\ px.out.settled = "rejected"
                        /\ Code(px.out.val) = S("GENERIC_ERROR")
                   [] OTHER -> px.out = Resolved(Null)
            ELSE /\ SurfacedAsParseError
                 /\ InstanceOf(px.out.val, "AppError")
                 /\ px.out.val.status = Num(px.response.status)
                 /\ px.out.val.message = S("Invalid response format")
    /\ (Handled /\ SurfacedAsParseError) =>
            /\ px.response.status # 204
            /\ ~ReadableBody

C14_Witness ==
    /\ UnparseableSuccess
    /\ px.response.status = 200
    /\ px.response.body.kind = "empty"
    /\ px.op = "getProducts"
    /\ SurfacedAsParseError
    /\ px.out.val.message = S("Invalid response format")

----------------------------------------------------------------------------
(* The classification tags *)

\* The taxonomy of the specification
Taxonomy ==
    {S(tag) : tag \in {"NETWORK_ERROR", "TIMEOUT_ERROR", "AUTH_REQUIRED", "AUTH_EXPIRED",
                       "INVALID_CREDENTIALS", "FORBIDDEN", "PRODUCT_NOT_FOUND",
                       "FILE_TOO_LARGE", "VALIDATION_ERROR", "PARSE_ERROR", "SERVER_ERROR",
                       "GENERIC_ERROR", "UNKNOWN_ERROR"}}

\* The tags the layer assigns by itself
AssignedTags ==
    {S(tag) : tag \in {"NETWORK_ERROR", "TIMEOUT_ERROR", "AUTH_REQUIRED",
                       "INVALID_CREDENTIALS", "VALIDATION_ERROR", "PARSE_ERROR",
                       "GENERIC_ERROR", "UNKNOWN_ERROR"}}

\* An operation has surfaced a Normalized Error for a response or a fetch failure
NormalizedErrorSurfaced ==
    /\ px.stage \in {"out", "fout"}
    /\ px.out.settled = "rejected"
    /\ InstanceOf(px.out.val, "AppError")

\* What the server or the transport sent with the failure
Received == IF px.stage = "out" THEN px.response.body.val ELSE px.error

----------------------------------------------------------------------------
(* Transport failures *)

\* fetch rejected before any response, in an operation that surfaces failures
TransportFailure == px.stage = "fout" /\ px.op \notin QuietOps

\* fetch rejects with a TypeError when the connection fails
ConnectionFault(e) == InstanceOf(e, "TypeError")

\* An abort or timeout signal: an AbortError, or a message that mentions timeout
AbortSignal(e) ==
    /\ InstanceOfError(e)
    /\ (e.name = S("AbortError") \/ Includes(e.message, "timeout"))

\* C16: a transport failure is surfaced as NETWORK_ERROR when it is a
\* connection fault, as TIMEOUT_ERROR when it is an abort or timeout signal,
\* and as NETWORK_ERROR when it is both.
C16_NetworkOrTimeout ==
    (TransportFailure /\ (ConnectionFault(px.error) \/ AbortSignal(px.error))) =>
        /\ px.out.settled = "rejected"
        /\ Code(px.out.val) =
              IF ConnectionFault(px.error) THEN S("NETWORK_ERROR") ELSE S("TIMEOUT_ERROR")

----------------------------------------------------------------------------
(* getUserListingsCount *)

ListingsCountSettled ==
    /\ px.stage \in {"qout", "fout"}
    /\ px.op = "getUserListingsCount"

\* The response is a success whose body is an object with a count
HasCount ==
    /\ px.stage = "qout"
    /\ px.response.status \in OkStatuses
    /\ ReadableBody
    /\ Get(px.response.body.val, "count") # Undefined

\* C18: getUserListingsCount never rejects: it resolves with the count of the
\* response when the response is a success whose body has one, and with 0 on a
\* network failure, a non-success status, an unparseable body or a body
\* without a count.
C18_ListingsCountNeverRejects ==
    ListingsCountSettled =>
        /\ px.out.settled = "resolved"
        /\ px.out.val = IF HasCount THEN px.response.body.val.count ELSE Num(0)

C18_Witness ==
    /\ ListingsCountSettled
    /\ HasCount
    /\ px.out = Resolved(Num(2))

----------------------------------------------------------------------------
(* Several calls in flight: the callers of api.ts run on one event loop, and  *)
(* every await of fetch lets the other callers and logout run                 *)

\* The operations the concurrent callers use
ConcOps == {"login", "getCurrentUser"}

\* The responses of the backend to them: a success, or a 401
ConcResponses(op) ==
    {r \in Responses(op) :
        /\ r.status \in {200, 401}
        /\ r.body.kind = "json"
        /\ r.body.val.t = "object"
        /\ r.status = 401 =>
              Get(r.body.val, "detail") \in {S("Incorrect username or password"),
                                            S("Could not validate credentials")}}

ConcFailures == {JsError("TypeError", "Failed to fetch")}

InFlight(i) == cc[i].phase = "inflight"

\* The record of the call that settled last: as Settle, with the stored
\* credential when its response was handled (at) and afterwards (after), and
\* whether a call that had started earlier was still in flight (overtook).
ConcSettle(c, http, outcome, at, after, overtook) ==
    [op |-> c.op, tok |-> c.tok, fetches |-> c.fetches, http |-> http,
     settled |-> outcome.settled, val |-> outcome.val,
     at |-> at, after |-> after, overtook |-> overtook]

\* Call i settles while a call that started before it is still in flight
Overtakes(i) == ~cc[i].first /\ \E j \in Slots \ {i} : InFlight(j) /\ cc[j].first

\* A caller calls op while other calls may be in flight
ConcStart(i, op) ==
    /\ cc[i] = Idle
    /\ \A j \in Slots : j < i => cc[j] # Idle
    /\ LET tk == IF op \in AuthOps THEN getToken ELSE Undefined
           c == [phase |-> "inflight", op |-> op, tok |-> tk, fetches |-> 1,
                 first |-> \A j \in Slots : ~InFlight(j), loggedOut |-> FALSE]
       IN
       IF op \in AuthOps /\ MissingToken(tk)
         THEN /\ last' = ConcSettle([c EXCEPT !.fetches = 0], 0,
                    Rejected(handleApiError(
                        createApiError(S("Not authenticated"), Num(401), S("AUTH_REQUIRED"), Undefined))),
                    token, token, FALSE)
              /\ cc' = cc
         ELSE /\ cc' = [cc EXCEPT ![i] = c]
              /\ last' = NoCall
    /\ UNCHANGED <<token, call, rt, px, vh, ui>>

\* The fetch of call i rejects
ConcFetchRejects(i, error) ==
    /\ InFlight(i)
    /\ last' = ConcSettle(cc[i], 0, OnFetchFailure(cc[i].op, error), token, token, Overtakes(i))
    /\ cc' = [cc EXCEPT ![i] = Idle]
    /\ UNCHANGED <<token, call, rt, px, vh, ui>>

\* The fetch of call i resolves with a response, which the call handles
ConcResponseArrives(i, response) ==
    /\ InFlight(i)
    /\ response \in ConcResponses(cc[i].op)
    /\ LET out == OnResponse(cc[i].op, response)
           after == IF out.store = Undefined THEN token ELSE out.store
       IN /\ last' = ConcSettle(cc[i], response.status, out, token, after, Overtakes(i))
          /\ token' = after
    /\ cc' = [cc EXCEPT ![i] = Idle]
    /\ UNCHANGED <<call, rt, px, vh, ui>>

\* logout() runs between the steps of the calls in flight; loggedOut marks the
\* calls that were in flight when it returned
ConcLogout ==
    /\ token' = removeItem
    /\ last' = NoCall
    /\ cc' = [i \in Slots |->
                IF InFlight(i) THEN [cc[i] EXCEPT !.loggedOut = TRUE] ELSE cc[i]]
    /\ UNCHANGED <<call, rt, px, vh, ui>>

ConcNext ==
    \/ \E i \in Slots, op \in ConcOps : ConcStart(i, op)
    \/ \E i \in Slots, error \in ConcFailures : ConcFetchRejects(i, error)
    \/ \E i \in Slots, response \in UNION {ConcResponses(op) : op \in ConcOps} :
            ConcResponseArrives(i, response)
    \/ ConcLogout

ConcSpec == Init /\ [][ConcNext]_vars

----------------------------------------------------------------------------
(* Logout while a request is in flight, checked under ConcSpec *)

\* An authenticated request that was sent has settled
SentRequestSettled == last.op \in AuthOps /\ last.fetches = 1

\* ... and the stored credential was absent by then: logout ran after the
\* request had read it
LoggedOutInFlight == SentRequestSettled /\ last.at = NoToken

\* The outcome of the server for the status the request received
ServerOutcome ==
    CASE last.http = 200 -> last.settled = "resolved" /\ last.val.t = "object"
      [] last.http = 401 ->
            /\ last.settled = "rejected"
            /\ last.val.status = Num(401)
            /\ Code(last.val) \in {Undefined, S("INVALID_CREDENTIALS")}
      [] OTHER ->
            /\ last.http = 0
            /\ last.settled = "rejected"
            /\ Code(last.val) = S("NETWORK_ERROR")

\* C17: an authenticated request that was sent carries the token it read when
\* it started and completes with the server's outcome, never AUTH_REQUIRED,
\* whether or not logout ran while it was in flight; handling its response
\* leaves the stored credential as it was, so that it stays absent after a
\* logout.
C17_LogoutLeavesRequestInFlight ==
    SentRequestSettled =>
        /\ last.tok \in Tokens
        /\ ServerOutcome
        /\ Code(last.val) # S("AUTH_REQUIRED")
        /\ last.after = last.at

\* C17 (witness): a request sent with a token resolves with the server's body
\* after logout cleared the credential, ahead of a call that started before it
C17_Witness ==
    /\ LoggedOutInFlight
    /\ last.tok \in Tokens
    /\ last.http = 200
    /\ last.settled = "resolved"
    /\ last.overtook
    /\ token = NoToken
    /\ \E j \in Slots : InFlight(j)

----------------------------------------------------------------------------
(* Logout and the logins in flight, checked under ConcSpec *)

\* The response of login call i is handled in this step
LoginResponseHandled(i) ==
    /\ InFlight(i)
    /\ cc[i].op = "login"
    /\ cc'[i] = Idle
    /\ last'.op = "login"
    /\ last'.http # 0

\* C26: logout is final for the logins already in flight: a credential is
\* stored only by the response of a login that started after the last logout,
\* and handling the response of a login that was in flight when logout
\* returned leaves the stored credential as it was.
C26_LogoutFinalForLoginsInFlight ==
    [][/\ (token' # token /\ token' # NoToken) =>
              \E i \in Slots : LoginResponseHandled(i) /\ ~cc[i].loggedOut
       /\ \A i \in Slots :
              (LoginResponseHandled(i) /\ cc[i].loggedOut) => token' = token]_vars

----------------------------------------------------------------------------
(* hooks/use-real-time-validation: useRealTimeValidation and                  *)
(* useMultiFieldValidation.  Time is in ms; the timers of setTimeout are the  *)
(* set vh.timers, and the clock does not pass the time a timer is due at.     *)

\* `debounceMs = 300` and `options.debounceMs || 300`
DefaultDebounceMs == 300
MultiDefaultDebounceMs == 300

\* What the hook validates: the one value of useRealTimeValidation, or the
\* fields of the fieldsSchema passed to useMultiFieldValidation
Keys(hook) == IF hook = "useRealTimeValidation" THEN {"value"} ELSE {"name", "email"}

\* The names the form passes to validateField and clearFieldValidation: the
\* fields of the schema, and names that are not fields of it
FieldNames == {"name", "email", "nonExistentField", "constructor"}

\* fieldsSchema[fieldName]: the schema of a field; for a name that is no field,
\* what the object literal inherits from Object.prototype under that name, or
\* undefined
SchemaOf(fieldName) ==
    IF fieldName \in {"name", "email"} THEN [t |-> "object", schema |-> fieldName]
    ELSE IF fieldName \in {"constructor", "toString", "valueOf", "hasOwnProperty"}
        THEN [t |-> "function"]
    ELSE Undefined

\* The values the form passes for a key
Inputs(key) ==
    CASE key = "value" -> {S("ab"), S("abc")}
      [] key = "name" -> {S("J"), S("John")}
      [] key = "email" -> {S("invalid"), S("john@example.com")}
      [] OTHER -> {S("value")}

\* schema.safeParse(value), for the schemas z.string().min(3, ...),
\* z.string().min(2, ...) and z.string().email(...)
safeParse(key, value) ==
    IF value \in {S("abc"), S("John"), S("john@example.com")}
        THEN [success |-> TRUE, message |-> Undefined]
        ELSE [success |-> FALSE,
              message |-> CASE key = "value" -> S("Must be at least 3 characters")
                            [] key = "name" -> S("Name must be at least 2 characters")
                            [] OTHER -> S("Invalid email format")]

HookOptions ==
    {[debounceMs |-> d, validateOnMount |-> m] : d \in {Undefined, Num(200)}, m \in BOOLEAN}

\* The delay the hook passes to setTimeout
debounceMs(hook, options) ==
    IF hook = "useRealTimeValidation"
        THEN IF options.debounceMs = Undefined THEN DefaultDebounceMs ELSE options.debounceMs.n
        ELSE OrElse(options.debounceMs, Num(MultiDefaultDebounceMs)).n

\* The state useState starts with
InitialState(options) ==
    [isValid |-> ~options.validateOnMount, error |-> Null, isValidating |-> FALSE]

\* The state the timeout callback sets
ResultState(result) ==
    [isValid |-> result.success,
     error |-> IF result.success THEN Null ELSE OrElse(result.message, S("Invalid value")),
     isValidating |-> FALSE]

\* The state the clear functions set
ClearedState_stillValidating == [isValid |-> TRUE, error |-> Null, isValidating |-> TRUE]
ClearedState == [isValid |-> TRUE, error |-> Null, isValidating |-> FALSE]

\* clearTimeout(id): the timer, if still pending, is cancelled
clearTimeout_noop(timers, id) == timers
clearTimeout(timers, id) == {t \in timers : t.id # id}

\* `if (ref) clearTimeout(ref)`: a ref that holds no timer id is 0
ClearRef(timers, ref) == IF ref # 0 THEN clearTimeout(timers, ref) ELSE timers

\* Object.values(timeoutRefs.current).forEach(timeout => clearTimeout(timeout))
clearAllTimeouts_none(timers, refs) == timers
clearAllTimeouts(timers, refs) ==
    {t \in timers : \A key \in DOMAIN refs : refs[key] = 0 \/ t.id # refs[key]}

\* The timers pending for a key
PendingFor(h, key) == {t \in h.timers : t.key = key}

\* Object.values(validationStates).every(state => state.isValid)
isFormValid(h) ==
    \A k \in DOMAIN h.states : "isValid" \in DOMAIN h.states[k] /\ h.states[k].isValid

\* Object.values(validationStates).some(state => state.isValidating)
isAnyFieldValidating(h) == \E k \in DOMAIN h.states : h.states[k].isValidating

\* What happened last to a key (not part of the hook's state): ev is
\* "validate", "clear" or "apply"; due is the time the timer set by validate is
\* due at; burst counts the validate calls since the last one that found no
\* timer pending; for "apply", value and due are those of the timer that
\* fired, at is the time it fired at, and fresh tells that the timer was set
\* by the last call for the key; for "clear", cancelled tells that a pending
\* timer was cancelled and due is the time it was due at.
Seen(ev, value, at, due, burst, fresh, cancelled) ==
    [ev |-> ev, value |-> value, at |-> at, due |-> due, burst |-> burst,
     fresh |-> fresh, cancelled |-> cancelled]

NothingSeen == Seen("none", Undefined, 0, 0, 0, FALSE, FALSE)

\* The time the timer a ref holds is due at, 0 when it is not pending
CancelledDue(h, key) ==
    IF \E t \in h.timers : t.id = h.refs[key]
        THEN (CHOOSE t \in h.timers : t.id = h.refs[key]).due
        ELSE 0

\* The hook after its first render
Mounted(hook, options, names) ==
    [mounted |-> TRUE, hook |-> hook, options |-> options, names |-> names,
     now |-> 0, nextId |-> 1,
     timers |-> {},
     refs |-> [key \in names |-> 0],
     states |-> [key \in Keys(hook) |-> InitialState(options)],
     seen |-> [key \in Keys(hook) |-> NothingSeen]]

\* The body of validate(value) and of validateField(key, value)
AfterValidate(h, key, value) ==
    LET due == h.now + debounceMs(h.hook, h.options)
        superseding == \E t \in h.timers : t.id = h.refs[key]
    IN [h EXCEPT
          !.timers = ClearRef(h.timers, h.refs[key])
                        \cup {[id |-> h.nextId, key |-> key, value |-> value, due |-> due]},
          !.refs[key] = h.nextId,
          !.nextId = h.nextId + 1,
          !.states = [k \in DOMAIN h.states \cup {key} |->
                        IF k # key THEN h.states[k]
                        ELSE IF key \in DOMAIN h.states
                            THEN [h.states[key] EXCEPT !.isValidating = TRUE]
                        ELSE [isValidating |-> TRUE]],
          !.seen = [k \in DOMAIN h.seen |->
                        IF k # key THEN h.seen[k]
                        ELSE Seen("validate", value, 0, due,
                                  IF superseding THEN h.seen[key].burst + 1 ELSE 1,
                                  FALSE, FALSE)]]

\* The body of clearValidation() and of clearFieldValidation(key)
AfterClear(h, key) ==
    [h EXCEPT
        !.timers = ClearRef(h.timers, h.refs[key]),
        !.states = [k \in DOMAIN h.states \cup {key} |->
                        IF k = key THEN ClearedState ELSE h.states[k]],
        !.seen = [k \in DOMAIN h.seen |->
                        IF k # key THEN h.seen[k]
                        ELSE Seen("clear", Undefined, 0, CancelledDue(h, key), 0, FALSE,
                                  \E t \in h.timers : t.id = h.refs[key])]]

validate(value) ==
    /\ vh.mounted /\ vh.hook = "useRealTimeValidation"
    /\ vh.nextId <= MaxTimers
    /\ value \in Inputs("value")
    /\ vh' = AfterValidate(vh, "value", value)
    /\ UNCHANGED <<token, call, last, rt, px, cc, ui>>

clearValidation ==
    /\ vh.mounted /\ vh.hook = "useRealTimeValidation"
    /\ vh' = AfterClear(vh, "value")
    /\ UNCHANGED <<token, call, last, rt, px, cc, ui>>

validateField(fieldName, value) ==
    /\ vh.mounted /\ vh.hook = "useMultiFieldValidation"
    /\ vh.nextId <= MaxTimers
    /\ fieldName \in vh.names
    /\ value \in Inputs(fieldName)
    /\ vh' = IF ~Truthy(SchemaOf(fieldName)) THEN vh
              ELSE AfterValidate(vh, fieldName, value)
    /\ UNCHANGED <<token, call, last, rt, px, cc, ui>>

clearFieldValidation(fieldName) ==
    /\ vh.mounted /\ vh.hook = "useMultiFieldValidation"
    /\ fieldName \in vh.names
    /\ vh' = AfterClear(vh, fieldName)
    /\ UNCHANGED <<token, call, last, rt, px, cc, ui>>

clearAllValidations ==
    /\ vh.mounted /\ vh.hook = "useMultiFieldValidation"
    /\ vh' = [vh EXCEPT
                !.timers = clearAllTimeouts(vh.timers, vh.refs),
                !.refs = [key \in DOMAIN vh.refs |-> 0],
                !.states = [key \in DOMAIN vh.states |-> ClearedState],
                !.seen = [key \in Keys(vh.hook) |->
                            Seen("clear", Undefined, 0, CancelledDue(vh, key), 0, FALSE,
                                 \E t \in vh.timers : t.id = vh.refs[key])]]
    /\ UNCHANGED <<token, call, last, rt, px, cc, ui>>

\* The callback of a timer that is due runs
TimeoutFires(timer) ==
    /\ vh.mounted
    /\ timer \in vh.timers
    /\ timer.due <= vh.now
    /\ LET key == timer.key
           g == vh.seen[key]
       IN vh' = IF SchemaOf(key).t = "function"
                THEN \* schema.safeParse is not a function: the callback throws
                     [vh EXCEPT !.timers = vh.timers \ {timer}]
                ELSE
                [vh EXCEPT
                  !.timers = vh.timers \ {timer},
                  !.states[key] = ResultState(safeParse(key, timer.value)),
                  !.seen[key] = Seen("apply", timer.value, vh.now, timer.due, g.burst,
                                     /\ g.ev = "validate"
                                     /\ g.value = timer.value
                                     /\ g.due = timer.due,
                                     FALSE)]
    /\ UNCHANGED <<token, call, last, rt, px, cc, ui>>

\* 100 ms pass with no timer due
Advance ==
    /\ vh.mounted
    /\ vh.now < MaxClock
    /\ \A t \in vh.timers : t.due > vh.now
    /\ vh' = [vh EXCEPT !.now = vh.now + 100]
    /\ UNCHANGED <<token, call, last, rt, px, cc, ui>>

HookInit ==
    /\ token = NoToken
    /\ call = Idle
    /\ last = NoCall
    /\ rt = RtIdle
    /\ px = PxIdle
    /\ cc = CcIdle
    /\ UiIdle
    /\ vh \in {Mounted(hook, options, Keys(hook)) :
                 hook \in {"useRealTimeValidation", "useMultiFieldValidation"},
                 options \in HookOptions}

HookNext ==
    \/ \E value \in Inputs("value") : validate(value)
    \/ clearValidation
    \/ \E fieldName \in FieldNames :
          \E value \in Inputs(fieldName) : validateField(fieldName, value)
    \/ \E fieldName \in FieldNames : clearFieldValidation(fieldName)
    \/ clearAllValidations
    \/ \E timer \in vh.timers : TimeoutFires(timer)
    \/ Advance

HookSpec == HookInit /\ [][HookNext]_vars

\* A form on useMultiFieldValidation that passes names outside the schema too
FormInit ==
    /\ token = NoToken
    /\ call = Idle
    /\ last = NoCall
    /\ rt = RtIdle
    /\ px = PxIdle
    /\ cc = CcIdle
    /\ UiIdle
    /\ vh \in {Mounted("useMultiFieldValidation", options, FieldNames) :
                 options \in {o \in HookOptions :
                                o.debounceMs = Undefined /\ ~o.validateOnMount}}

FormNext ==
    \/ \E fieldName \in FieldNames :
          \E value \in Inputs(fieldName) : validateField(fieldName, value)
    \/ \E fieldName \in FieldNames : clearFieldValidation(fieldName)
    \/ clearAllValidations
    \/ \E timer \in vh.timers : TimeoutFires(timer)
    \/ Advance

FormSpec == FormInit /\ [][FormNext]_vars

----------------------------------------------------------------------------
(* Claims about the validation hooks, checked under HookSpec *)

Delay == debounceMs(vh.hook, vh.options)

\* validate was called several times, each while the timer of the call
\* before was pending, and no clear or result followed the last call
Debouncing(key) == vh.seen[key].ev = "validate"

\* The result of a validation has been applied, and nothing happened since
Applied(key) == vh.seen[key].ev = "apply"

\* C19: while useRealTimeValidation debounces, isValidating is true and the
\* one pending timer is that of the last value, due debounceMs after the last
\* call; a result that is applied is that of the last value, applied at that
\* time and once, and then isValidating is false and isValid is true exactly
\* when error is null.
C19_DebounceAppliesLastValueOnce ==
    vh.hook = "useRealTimeValidation" =>
        LET g == vh.seen["value"]
            st == vh.states["value"]
        IN /\ Debouncing("value") =>
                /\ st.isValidating
                /\ vh.now <= g.due
                /\ PendingFor(vh, "value") =
                      {[id |-> vh.refs["value"], key |-> "value", value |-> g.value,
                        due |-> g.due]}
           /\ Applied("value") =>
                /\ g.fresh
                /\ g.at = g.due
                /\ PendingFor(vh, "value") = {}
                /\ ~st.isValidating
                /\ st.isValid = safeParse("value", g.value).success
                /\ st.isValid <=> st.error = Null

\* C19 (witness): three calls 100 ms apart with debounceMs = 200, then the
\* result of the third value, 400 ms after the first call
C19_Witness ==
    /\ vh.hook = "useRealTimeValidation"
    /\ Delay = 200
    /\ Applied("value")
    /\ vh.seen["value"].burst = 3
    /\ vh.seen["value"].value = S("abc")
    /\ vh.now = 400
    /\ vh.states["value"] = [isValid |-> TRUE, error |-> Null, isValidating |-> FALSE]

\* A clear function ran for the key, and nothing happened to the key since
Cleared(key) == vh.mounted /\ vh.seen[key].ev = "clear"

\* C20: after clearValidation, clearFieldValidation or clearAllValidations the
\* state of the key is isValid = true, error = null, isValidating = false and
\* no timer is pending for it; a result is applied only by the timer of a call
\* made after the clear.
C20_ClearResetsAndCancels ==
    vh.mounted =>
        \A key \in Keys(vh.hook) :
            /\ Cleared(key) =>
                  /\ vh.states[key] = [isValid |-> TRUE, error |-> Null, isValidating |-> FALSE]
                  /\ PendingFor(vh, key) = {}
            /\ Applied(key) => vh.seen[key].fresh

\* C20 (witness): clearAllValidations cancelled the pending validation of a
\* field, and the time it was due at has passed with the state still cleared
C20_Witness ==
    /\ vh.mounted
    /\ vh.hook = "useMultiFieldValidation"
    /\ \A key \in Keys(vh.hook) : Cleared(key)
    /\ vh.seen["name"].cancelled
    /\ vh.seen["email"].cancelled
    /\ vh.now > vh.seen["name"].due
    /\ vh.now > vh.seen["email"].due
    /\ vh.states["name"] = [isValid |-> TRUE, error |-> Null, isValidating |-> FALSE]

----------------------------------------------------------------------------
(* withRetry called with any number of attempts, checked under RetrySpec *)

\* The values operation() returned during the run
ReturnedByOperation == {rt.hist[i].val : i \in {j \in DOMAIN rt.hist : ~rt.hist[j].threw}}

\* C25: for every maxRetries, 0 and negative values included, a finished run
\* either resolved with a value operation() returned or rejected with an
\* AppError; with maxRetries <= 0 it rejected with an AppError and operation()
\* was never invoked.
C25_SettlesWithValueOrAppError ==
    rt.pc = "done" =>
        /\ \/ rt.settled = "resolved" /\ rt.result \in ReturnedByOperation
           \/ rt.settled = "rejected" /\ InstanceOf(rt.result, "AppError")
        /\ rt.maxRetries <= 0 =>
              /\ rt.settled = "rejected" /\ InstanceOf(rt.result, "AppError")
              /\ rt.hist = <<>>

----------------------------------------------------------------------------
(* The fields of useMultiFieldValidation *)

\* What the hook returns for the fields of the schema, and its timers
Rendered(h) ==
    [states |-> [k \in Keys(h.hook) |-> h.states[k]],
     extra |-> DOMAIN h.states \ Keys(h.hook),
     timers |-> h.timers,
     isFormValid |-> isFormValid(h),
     isAnyFieldValidating |-> isAnyFieldValidating(h)]

\* The step is a call of validateField or clearFieldValidation for fieldName
OperationOn(fieldName) ==
    \/ \E value \in Inputs(fieldName) : validateField(fieldName, value)
    \/ clearFieldValidation(fieldName)

\* C21: an operation on one field leaves the state and the pending timers of
\* every other field as they were; validateField for a name that is not in the
\* schema changes nothing; isFormValid is true exactly when every field is
\* valid, and isAnyFieldValidating exactly when some field is validating.
C21_FieldsAreIndependent ==
    [][ vh.hook = "useMultiFieldValidation" =>
          /\ \A fieldName \in FieldNames :
                OperationOn(fieldName) =>
                    \A other \in Keys(vh.hook) \ {fieldName} :
                        /\ vh'.states[other] = vh.states[other]
                        /\ PendingFor(vh', other) = PendingFor(vh, other)
          /\ \A fieldName \in FieldNames \ Keys(vh.hook) :
                (\E value \in Inputs(fieldName) : validateField(fieldName, value))
                    => Rendered(vh') = Rendered(vh)
          /\ isFormValid(vh') <=> \A k \in Keys(vh.hook) : vh'.states[k].isValid
          /\ isAnyFieldValidating(vh') <=> \E k \in Keys(vh.hook) : vh'.states[k].isValidating
      ]_vars

----------------------------------------------------------------------------
(* ConfirmDialog (components/ui/confirm-dialog.tsx) *)

\* A call of one of the callbacks the parent passed
Called(f, args) == [f |-> f, args |-> args]

\* f?.(args): the call, when the parent passed the callback
Optional(passed, f, args) == IF passed THEN <<Called(f, args)>> ELSE <<>>

\* The props of a ConfirmDialog; onCancel and onOpenChange say whether the
\* parent passed the optional callback
ConfirmDialogProps ==
    [open : BOOLEAN, loading : BOOLEAN, disabled : BOOLEAN,
     onCancel : BOOLEAN, onOpenChange : BOOLEAN]

handleConfirm_ignoresDisabled(props) ==
    IF ~props.loading THEN <<Called("onConfirm", <<>>)>> ELSE <<>>

\* handleConfirm: the callbacks a click on the confirm button calls
handleConfirm(props) ==
    IF ~props.loading /\ ~props.disabled THEN <<Called("onConfirm", <<>>)>> ELSE <<>>

\* handleCancel: the callbacks a click on the cancel button calls
handleCancel(props) ==
    IF ~props.loading
        THEN Optional(props.onCancel, "onCancel", <<>>)
                \o Optional(props.onOpenChange, "onOpenChange", <<FALSE>>)
        ELSE <<>>

\* handleOpenChange(newOpen): the callbacks an open-change request calls
handleOpenChange(props, newOpen) ==
    IF ~props.loading
        THEN Optional(props.onOpenChange, "onOpenChange", <<newOpen>>)
                \o (IF ~newOpen THEN Optional(props.onCancel, "onCancel", <<>>) ELSE <<>>)
        ELSE <<>>

\* The parent keeps the open prop in a state it sets from onOpenChange
OpenAfter(open, calls) ==
    LET changes == SelectSeq(calls, LAMBDA c : c.f = "onOpenChange")
    IN IF changes = <<>> THEN open ELSE changes[Len(changes)].args[1]

\* The dialog after an event whose handler made the calls; ev, at, calls and
\* after record the event, the props it met, the calls and the open prop after
AfterEvent(d, ev, calls) ==
    [d EXCEPT !.props.open = OpenAfter(d.props.open, calls),
              !.ev = ev, !.at = d.props, !.calls = calls,
              !.after = OpenAfter(d.props.open, calls)]

ConfirmClick ==
    /\ dlg.mounted /\ dlg.props.open
    /\ dlg' = AfterEvent(dlg, "confirm", handleConfirm(dlg.props))
    /\ UNCHANGED <<token, call, last, rt, px, cc, vh, sell, edit, ml, la>>

CancelClick ==
    /\ dlg.mounted /\ dlg.props.open
    /\ dlg' = AfterEvent(dlg, "cancel", handleCancel(dlg.props))
    /\ UNCHANGED <<token, call, last, rt, px, cc, vh, sell, edit, ml, la>>

OpenChangeRequest(newOpen) ==
    /\ dlg.mounted /\ dlg.props.open
    /\ dlg' = AfterEvent(dlg, "openChange", handleOpenChange(dlg.props, newOpen))
    /\ UNCHANGED <<token, call, last, rt, px, cc, vh, sell, edit, ml, la>>

\* The parent renders the dialog again with other props
Rerender(props) ==
    /\ dlg.mounted
    /\ props \in ConfirmDialogProps
    /\ props.onCancel = dlg.props.onCancel
    /\ props.onOpenChange = dlg.props.onOpenChange
    /\ props # dlg.props
    /\ dlg' = [dlg EXCEPT !.props = props]
    /\ UNCHANGED <<token, call, last, rt, px, cc, vh, sell, edit, ml, la>>

DialogInit ==
    /\ ApiIdle
    /\ sell = NotMounted /\ edit = NotMounted /\ ml = NotMounted /\ la = NotMounted
    /\ dlg \in {[mounted |-> TRUE, props |-> props, ev |-> "none", at |-> props,
                  calls |-> <<>>, after |-> props.open] : props \in ConfirmDialogProps}

DialogNext ==
    \/ ConfirmClick
    \/ CancelClick
    \/ \E newOpen \in BOOLEAN : OpenChangeRequest(newOpen)
    \/ \E props \in ConfirmDialogProps : Rerender(props)

DialogSpec == DialogInit /\ [][DialogNext]_vars

\* The callbacks the last event called
CalledBy(f) == {i \in DOMAIN dlg.calls : dlg.calls[i].f = f}

\* C22: while loading is true, a confirm click, a cancel click and an
\* open-change request call none of onConfirm, onCancel and onOpenChange; while
\* disabled and not loading, a confirm click does not call onConfirm, and a
\* cancel click still calls onCancel and onOpenChange(false), which closes the
\* dialog.
C22_LoadingBlocksDisabledStillCancels ==
    dlg.mounted /\ dlg.ev # "none" =>
        /\ dlg.at.loading => dlg.calls = <<>> /\ dlg.after = dlg.at.open
        /\ dlg.at.disabled /\ dlg.ev = "confirm" => CalledBy("onConfirm") = {}
        /\ ~dlg.at.loading /\ dlg.ev = "cancel" =>
              /\ dlg.at.onCancel => CalledBy("onCancel") # {}
              /\ dlg.at.onOpenChange =>
                    /\ \E i \in CalledBy("onOpenChange") : dlg.calls[i].args = <<FALSE>>
                    /\ ~dlg.after

\* A cancel click on an open dialog that was loading, with both optional
\* callbacks passed, called nothing and left the dialog open
C22_Witness ==
    /\ dlg.mounted /\ dlg.at.loading /\ dlg.at.onCancel /\ dlg.at.onOpenChange
    /\ dlg.ev = "cancel" /\ dlg.calls = <<>> /\ dlg.after

----------------------------------------------------------------------------
(* The images of the sell page (app/sell/page.tsx) *)

\* The most images a listing may hold
MaxImagesPerListing == 6

\* The numbers of files the user picks at once
BatchSizes == {1, 3}

\* Remove the element at position i of a sequence
RemoveAt(seq, i) == [j \in 1..(Len(seq) - 1) |-> IF j < i THEN seq[j] ELSE seq[j + 1]]

\* images.findIndex(img => img.id === imageId), from 1; 0 when there is none
FindIndex(images, imageId) ==
    IF \E i \in DOMAIN images : images[i].id = imageId
        THEN CHOOSE i \in DOMAIN images :
                /\ images[i].id = imageId
                /\ \A j \in 1..(i - 1) : images[j].id # imageId
        ELSE 0

\* The File objects of one pick: each is a new object
NewFiles(first, n) == [i \in 1..n |-> first + i - 1]

TooManyImages_offByOne(images, files) ==
    Len(images) + Len(files) > MaxImagesPerListing + 1

\* images.length + files.length > 6
TooManyImages(images, files) == Len(images) + Len(files) > MaxImagesPerListing

\* The temporary image objects of the files picked at Date.now() = now
NewImages(images, files, now) ==
    [i \in DOMAIN files |->
        [id |-> now + (i - 1), url |-> files[i],
         is_primary |-> Len(images) = 0 /\ i = 1]]

\* The body of handleImageUpload(files); valid says whether every file passes
\* validateSingleImage
AfterImageUpload(s, files, valid) ==
    IF Len(files) = 0 THEN s
    ELSE IF TooManyImages(s.images, files) THEN [s EXCEPT !.warning = "TOO_MANY_IMAGES"]
    ELSE IF ~valid THEN [s EXCEPT !.warning = "Invalid file"]
    ELSE [s EXCEPT
            !.imageFiles = s.imageFiles \o files,
            !.images = s.images \o NewImages(s.images, files, s.now),
            !.nextFile = s.nextFile + Len(files),
            !.warning = "none"]

\* The images after handleImageDelete(imageId): the filter, then the first
\* remaining image made primary when none is
ImagesAfterDelete(images, imageId) ==
    LET updatedImages == SelectSeq(images, LAMBDA img : img.id # imageId)
    IN IF Len(updatedImages) > 0 /\ ~\E i \in DOMAIN updatedImages : updatedImages[i].is_primary
           THEN [updatedImages EXCEPT ![1].is_primary = TRUE]
           ELSE updatedImages

\* The body of handleImageDelete(imageId)
AfterImageDelete(s, imageId) ==
    LET imageIndex == FindIndex(s.images, imageId)
    IN [s EXCEPT
          !.images = ImagesAfterDelete(s.images, imageId),
          !.imageFiles = IF imageIndex # 0 THEN RemoveAt(s.imageFiles, imageIndex)
                         ELSE s.imageFiles,
          !.warning = "none"]

\* The body of handleSetPrimary(imageId)
AfterSetPrimary(s, imageId) ==
    [s EXCEPT
        !.images = [i \in DOMAIN s.images |->
                        [s.images[i] EXCEPT !.is_primary = (s.images[i].id = imageId)]],
        !.warning = "none"]

\* The ImageManager lets the user act: neither disabled nor loading
ImageManagerEnabled(s) == ~s.isSubmitting /\ ~s.isUploadingImages

\* No onSubmit has run
NoSubmit == [pc |-> "idle", attempt |-> 0]

\* The sell page as first rendered; warning is the warning or error message
\* of the last operation, "none" when it showed a success message
SellMounted ==
    [mounted |-> TRUE, images |-> <<>>, imageFiles |-> <<>>, now |-> 0, nextFile |-> 1,
     isSubmitting |-> FALSE, isUploadingImages |-> FALSE, warning |-> "none",
     submit |-> NoSubmit]

Sell_handleImageUpload(n, valid) ==
    /\ sell.mounted /\ ImageManagerEnabled(sell)
    /\ Len(sell.images) < MaxImagesPerListing
    /\ n \in BatchSizes
    /\ TooManyImages(sell.images, NewFiles(sell.nextFile, n))
            \/ sell.nextFile + n - 1 <= MaxFiles
    /\ sell' = AfterImageUpload(sell, NewFiles(sell.nextFile, n), valid)
    /\ UNCHANGED <<token, call, last, rt, px, cc, vh, dlg, edit, ml, la>>

Sell_handleImageDelete(imageId) ==
    /\ sell.mounted /\ ImageManagerEnabled(sell)
    /\ \E i \in DOMAIN sell.images : sell.images[i].id = imageId
    /\ sell' = AfterImageDelete(sell, imageId)
    /\ UNCHANGED <<token, call, last, rt, px, cc, vh, dlg, edit, ml, la>>

Sell_handleSetPrimary(imageId) ==
    /\ sell.mounted /\ ImageManagerEnabled(sell)
    /\ \E i \in DOMAIN sell.images : sell.images[i].id = imageId /\ ~sell.images[i].is_primary
    /\ sell' = AfterSetPrimary(sell, imageId)
    /\ UNCHANGED <<token, call, last, rt, px, cc, vh, dlg, edit, ml, la>>

\* A millisecond passes: Date.now() grows by one
Tick ==
    /\ sell.mounted
    /\ sell.now < MaxNow
    /\ sell' = [sell EXCEPT !.now = sell.now + 1]
    /\ UNCHANGED <<token, call, last, rt, px, cc, vh, dlg, edit, ml, la>>

SellImagesNext ==
    \/ \E n \in BatchSizes, valid \in BOOLEAN : Sell_handleImageUpload(n, valid)
    \/ sell.mounted /\ \E i \in DOMAIN sell.images : Sell_handleImageDelete(sell.images[i].id)
    \/ sell.mounted /\ \E i \in DOMAIN sell.images : Sell_handleSetPrimary(sell.images[i].id)
    \/ Tick

(* The submit of the sell page (app/sell/page.tsx, onSubmit) *)

\* The ids the server gives a new product
ProductIds == {1, 2, 3}

\* The errors createProduct and uploadProductImages reject with
SubmitErrors == {"AUTH_EXPIRED", "VALIDATION_ERROR", "NETWORK_ERROR"}

\* onSubmit(data) up to the await of createProduct: imageFiles is the array of
\* the render the form was submitted in
AfterSubmit(s) ==
    [s EXCEPT
        !.isSubmitting = TRUE,
        !.submit = [pc |-> "creating", attempt |-> s.submit.attempt + 1,
                    files |-> s.imageFiles, product |-> 0,
                    created |-> "pending", uploaded |-> "none", error |-> "none",
                    requests |-> <<Called("createProduct", <<>>)>>,
                    toasts |-> <<>>, pushed |-> 0]]

\* The end of onSubmit after the images: the success message, the redirect,
\* and the finally block
AfterListingCreated(s, toasts) ==
    [s EXCEPT
        !.isSubmitting = FALSE,
        !.submit.pc = "finished",
        !.submit.toasts = s.submit.toasts \o toasts \o <<"LISTING_CREATED">>,
        !.submit.pushed = s.submit.product]

\* onSubmit from the resolution of createProduct to its next await or its end
AfterCreateResolved(s, newProduct) ==
    LET created == [s EXCEPT !.submit.product = newProduct, !.submit.created = "resolved"]
    IN IF Len(s.submit.files) > 0
           THEN [created EXCEPT
                    !.isUploadingImages = TRUE,
                    !.submit.pc = "uploading",
                    !.submit.uploaded = "pending",
                    !.submit.requests = s.submit.requests \o
                        <<Called("uploadProductImages", <<newProduct, s.submit.files>>)>>]
           ELSE AfterListingCreated(created, <<>>)

AfterCreateRejected_staysSubmitting(s, error) ==
    [s EXCEPT
        !.submit.pc = "finished",
        !.submit.created = "rejected",
        !.submit.error = error,
        !.submit.toasts = s.submit.toasts \o <<"Failed to create listing">>]

\* onSubmit when createProduct rejects: the catch and the finally block
AfterCreateRejected(s, error) ==
    [s EXCEPT
        !.isSubmitting = FALSE,
        !.submit.pc = "finished",
        !.submit.created = "rejected",
        !.submit.error = error,
        !.submit.toasts = s.submit.toasts \o <<"Failed to create listing">>]

\* onSubmit from the settlement of uploadProductImages to its end; error is
\* "none" when the upload resolved
AfterUploadSettled(s, error) ==
    AfterListingCreated(
        [s EXCEPT !.isUploadingImages = FALSE,
                  !.submit.uploaded = IF error = "none" THEN "resolved" ELSE "rejected",
                  !.submit.error = error],
        IF error = "none" THEN <<"IMAGES_UPLOADED">> ELSE <<"IMAGES_UPLOAD_PARTIAL">>)

onSubmit ==
    /\ sell.mounted /\ ~sell.isSubmitting
    /\ sell.submit.pc = "idle" \/ (sell.submit.pc = "finished" /\ sell.submit.pushed = 0)
    /\ sell.submit.attempt < MaxSubmits
    /\ sell' = AfterSubmit(sell)
    /\ UNCHANGED <<token, call, last, rt, px, cc, vh, dlg, edit, ml, la>>

CreateProductResolves(newProduct) ==
    /\ sell.mounted /\ sell.submit.pc = "creating"
    /\ sell' = AfterCreateResolved(sell, newProduct)
    /\ UNCHANGED <<token, call, last, rt, px, cc, vh, dlg, edit, ml, la>>

CreateProductRejects(error) ==
    /\ sell.mounted /\ sell.submit.pc = "creating"
    /\ sell' = AfterCreateRejected(sell, error)
    /\ UNCHANGED <<token, call, last, rt, px, cc, vh, dlg, edit, ml, la>>

UploadProductImagesResolves ==
    /\ sell.mounted /\ sell.submit.pc = "uploading"
    /\ sell' = AfterUploadSettled(sell, "none")
    /\ UNCHANGED <<token, call, last, rt, px, cc, vh, dlg, edit, ml, la>>

UploadProductImagesRejects(error) ==
    /\ sell.mounted /\ sell.submit.pc = "uploading"
    /\ sell' = AfterUploadSettled(sell, error)
    /\ UNCHANGED <<token, call, last, rt, px, cc, vh, dlg, edit, ml, la>>

\* The sell page with n images picked, before the first submit
SellWithImages(n) ==
    [SellMounted EXCEPT
        !.imageFiles = NewFiles(1, n),
        !.images = NewImages(<<>>, NewFiles(1, n), 0),
        !.nextFile = n + 1]

SubmitInit ==
    /\ ApiIdle
    /\ dlg = NotMounted /\ edit = NotMounted /\ ml = NotMounted /\ la = NotMounted
    /\ sell \in {SellWithImages(n) : n \in 0..3}

SubmitNext ==
    \/ onSubmit
    \/ \E newProduct \in ProductIds : CreateProductResolves(newProduct)
    \/ \E error \in SubmitErrors : CreateProductRejects(error)
    \/ UploadProductImagesResolves
    \/ \E error \in SubmitErrors : UploadProductImagesRejects(error)

SubmitSpec == SubmitInit /\ [][SubmitNext]_vars

\* The requests of the running or last submit to the operation f
RequestsTo(f) == {i \in DOMAIN sell.submit.requests : sell.submit.requests[i].f = f}

ToastShown(t) == \E i \in DOMAIN sell.submit.toasts : sell.submit.toasts[i] = t

\* C23: uploadProductImages is called only after createProduct has resolved,
\* at most once per submit, with the id of the new product and the pending
\* files; when the upload fails nothing is deleted or retried, the
\* IMAGES_UPLOAD_PARTIAL warning and the listing-created message are shown and
\* the page redirects to the product; when createProduct fails there is no
\* upload and no redirect; when onSubmit has finished isSubmitting is false.
C23_UploadAfterCreateOnce ==
    sell.mounted /\ sell.submit.pc # "idle" =>
        /\ Cardinality(RequestsTo("uploadProductImages")) <= 1
        /\ RequestsTo("deleteProduct") = {}
        /\ \A i \in RequestsTo("uploadProductImages") :
              /\ sell.submit.created = "resolved"
              /\ i > 1 /\ sell.submit.requests[1].f = "createProduct"
              /\ sell.submit.requests[i].args = <<sell.submit.product, sell.submit.files>>
        /\ sell.submit.uploaded = "rejected" =>
              /\ Len(sell.submit.requests) = 2
              /\ ToastShown("IMAGES_UPLOAD_PARTIAL")
              /\ ToastShown("LISTING_CREATED")
              /\ sell.submit.pushed = sell.submit.product
              /\ sell.submit.pushed \in ProductIds
        /\ sell.submit.created = "rejected" =>
              /\ RequestsTo("uploadProductImages") = {}
              /\ sell.submit.pushed = 0
              /\ ~ToastShown("LISTING_CREATED")
        /\ sell.submit.pc = "finished" => ~sell.isSubmitting

\* A submit with pending files whose upload failed has finished
C23_Witness ==
    /\ sell.mounted /\ sell.submit.pc = "finished"
    /\ sell.submit.uploaded = "rejected"
    /\ Len(sell.submit.files) > 1

(* The images of the edit page (EditListingPage) *)

\* The numbers of images the listing has when the edit page loads it
LoadedCounts == {0, 4}

\* The images the server returns: ids are the server's, given in order
ServerImages(first, n) == [i \in 1..n |-> [id |-> first + i - 1, is_primary |-> first + i - 1 = 1]]

\* The edit page once loadData has set product and images
EditMounted(n) ==
    [mounted |-> TRUE, images |-> ServerImages(1, n), nextId |-> n + 1,
     imageUploading |-> FALSE, submitting |-> FALSE, upload |-> 0,
     deleting |-> {}, warning |-> "none"]

\* handleImageUpload(files) up to the await of uploadProductImages
Edit_handleImageUpload(n, valid) ==
    /\ edit.mounted /\ ~edit.submitting /\ ~edit.imageUploading
    /\ Len(edit.images) < MaxImagesPerListing
    /\ n \in BatchSizes
    /\ TooManyImages(edit.images, NewFiles(1, n))
            \/ edit.nextId + n - 1 <= MaxFiles
    /\ edit' = IF TooManyImages(edit.images, NewFiles(1, n))
                   THEN [edit EXCEPT !.warning = "Too many images"]
               ELSE IF ~valid THEN [edit EXCEPT !.warning = "Invalid file"]
               ELSE [edit EXCEPT !.imageUploading = TRUE, !.upload = n]
    /\ UNCHANGED <<token, call, last, rt, px, cc, vh, dlg, sell, ml, la>>

\* uploadProductImages resolves with the images of the files
Edit_UploadResolves ==
    /\ edit.mounted /\ edit.upload > 0
    /\ edit' = [edit EXCEPT
                    !.images = edit.images \o ServerImages(edit.nextId, edit.upload),
                    !.nextId = edit.nextId + edit.upload,
                    !.warning = "none",
                    !.imageUploading = FALSE, !.upload = 0]
    /\ UNCHANGED <<token, call, last, rt, px, cc, vh, dlg, sell, ml, la>>

Edit_UploadRejects ==
    /\ edit.mounted /\ edit.upload > 0
    /\ edit' = [edit EXCEPT !.warning = "Failed to upload images",
                            !.imageUploading = FALSE, !.upload = 0]
    /\ UNCHANGED <<token, call, last, rt, px, cc, vh, dlg, sell, ml, la>>

\* handleImageDelete(imageId) up to the await of deleteProductImage
Edit_handleImageDelete(imageId) ==
    /\ edit.mounted /\ ~edit.submitting /\ ~edit.imageUploading
    /\ \E i \in DOMAIN edit.images : edit.images[i].id = imageId
    /\ imageId \notin edit.deleting
    /\ Cardinality(edit.deleting) < MaxInFlight
    /\ edit' = [edit EXCEPT !.deleting = edit.deleting \cup {imageId}]
    /\ UNCHANGED <<token, call, last, rt, px, cc, vh, dlg, sell, ml, la>>

Edit_DeleteResolves(imageId) ==
    /\ edit.mounted /\ imageId \in edit.deleting
    /\ edit' = [edit EXCEPT
                    !.images = SelectSeq(edit.images, LAMBDA img : img.id # imageId),
                    !.deleting = edit.deleting \ {imageId},
                    !.warning = "none"]
    /\ UNCHANGED <<token, call, last, rt, px, cc, vh, dlg, sell, ml, la>>

Edit_DeleteRejects(imageId) ==
    /\ edit.mounted /\ imageId \in edit.deleting
    /\ edit' = [edit EXCEPT !.deleting = edit.deleting \ {imageId},
                            !.warning = "Failed to delete image"]
    /\ UNCHANGED <<token, call, last, rt, px, cc, vh, dlg, sell, ml, la>>

EditImagesNext ==
    \/ \E n \in BatchSizes, valid \in BOOLEAN : Edit_handleImageUpload(n, valid)
    \/ Edit_UploadResolves
    \/ Edit_UploadRejects
    \/ edit.mounted /\ \E i \in DOMAIN edit.images : Edit_handleImageDelete(edit.images[i].id)
    \/ edit.mounted /\ \E imageId \in edit.deleting : Edit_DeleteResolves(imageId)
    \/ edit.mounted /\ \E imageId \in edit.deleting : Edit_DeleteRejects(imageId)

\* One of the two pages is open
ImagesInit ==
    /\ ApiIdle
    /\ dlg = NotMounted /\ ml = NotMounted /\ la = NotMounted
    /\ \/ sell = SellMounted /\ edit = NotMounted
       \/ sell = NotMounted /\ edit \in {EditMounted(n) : n \in LoadedCounts}

ImagesNext == SellImagesNext \/ EditImagesNext

ImagesSpec == ImagesInit /\ [][ImagesNext]_vars

\* C24: on the sell page and on the edit page images never holds more than 6
\* images, and an upload that is refused because it would bring the images
\* above 6 (the step that shows the too-many-images message) leaves images and the
\* pending files as they were and starts no request.
C24_AtMostSixImages ==
    [][ /\ sell'.mounted => Len(sell'.images) <= MaxImagesPerListing
        /\ edit'.mounted => Len(edit'.images) <= MaxImagesPerListing
        /\ (sell.mounted /\ sell'.warning = "TOO_MANY_IMAGES" /\ sell.warning # sell'.warning) =>
              (sell'.images = sell.images /\ sell'.imageFiles = sell.imageFiles)
        /\ (edit.mounted /\ edit'.warning = "Too many images" /\ edit.warning # edit'.warning) =>
              (edit'.images = edit.images /\ edit'.upload = edit.upload)
      ]_vars

\* The sell page holds 5 images after an upload of several files was refused
C24_Witness ==
    /\ sell.mounted
    /\ Len(sell.images) = MaxImagesPerListing - 1
    /\ sell.warning = "TOO_MANY_IMAGES"

\* C28: images and imageFiles have the same length, and the i-th preview is
\* the preview of the i-th pending file.
C28_PreviewsMatchPendingFiles ==
    sell.mounted =>
        /\ Len(sell.images) = Len(sell.imageFiles)
        /\ \A i \in DOMAIN sell.images : sell.images[i].url = sell.imageFiles[i]

----------------------------------------------------------------------------
(* app/my-listings/page.tsx: MyListingsPage.  listings and actionLoading are  *)
(* the page's state, reqs the requests of handleDelete and handleToggleSold   *)
(* that are awaiting the backend, toast the message shown last.               *)

MaxListings == 3

\* getMyProducts() has loaded the listings of the user
MyListingsMounted(is_sold) ==
    [mounted |-> TRUE,
     listings |-> [i \in 1..MaxListings |-> [id |-> i, is_sold |-> is_sold[i]]],
     actionLoading |-> Null,
     reqs |-> {},
     toast |-> "none"]

\* loading={actionLoading === listing.id}: the loading prop of the card of id
CardLoading(s, id) == s.actionLoading = Num(id)

\* A request of the card of id is awaiting the backend
RequestInFlightFor(s, id) == \E r \in s.reqs : r.id = id

\* The card of id is rendered and its ListingActions lets the user act:
\* isDisabled is false while the loading prop is false and no callback of this
\* card is in flight
CardEnabled(s, id) ==
    /\ \E i \in DOMAIN s.listings : s.listings[i].id = id
    /\ ~CardLoading(s, id)
    /\ ~RequestInFlightFor(s, id)

\* finally { setActionLoading(null) } of the handler whose request r settled
ActionSettled(s, r, listings, toast) ==
    [s EXCEPT !.listings = listings,
              !.toast = toast,
              !.actionLoading = Null,
              !.reqs = @ \ {r}]

\* handleDelete(id), up to its await
MyListings_handleDelete(id) ==
    /\ ml.mounted
    /\ CardEnabled(ml, id)
    /\ ml' = [ml EXCEPT !.actionLoading = Num(id),
                        !.reqs = @ \cup {[op |-> "deleteProduct", id |-> id]}]
    /\ UNCHANGED <<token, call, last, rt, px, cc, vh, dlg, sell, edit, la>>

\* deleteProduct(id) resolves
DeleteProductResolves(r) ==
    /\ ml.mounted
    /\ r \in ml.reqs
    /\ r.op = "deleteProduct"
    /\ ml' = ActionSettled(ml, r,
                SelectSeq(ml.listings, LAMBDA listing : listing.id # r.id),
                "LISTING_DELETED")
    /\ UNCHANGED <<token, call, last, rt, px, cc, vh, dlg, sell, edit, la>>

\* deleteProduct(id) rejects
DeleteProductRejects(r) ==
    /\ ml.mounted
    /\ r \in ml.reqs
    /\ r.op = "deleteProduct"
    /\ ml' = ActionSettled(ml, r, ml.listings, "Failed to delete listing")
    /\ UNCHANGED <<token, call, last, rt, px, cc, vh, dlg, sell, edit, la>>

\* handleToggleSold(id, sold), up to its await
MyListings_handleToggleSold(id, sold) ==
    /\ ml.mounted
    /\ CardEnabled(ml, id)
    /\ ml' = [ml EXCEPT !.actionLoading = Num(id),
                        !.reqs = @ \cup {[op |-> "toggleProductSoldStatus",
                                          id |-> id, sold |-> sold]}]
    /\ UNCHANGED <<token, call, last, rt, px, cc, vh, dlg, sell, edit, la>>

\* toggleProductSoldStatus(id, {is_sold: sold}) resolves with updatedProduct
ToggleSoldResolves(r, updatedProduct) ==
    /\ ml.mounted
    /\ r \in ml.reqs
    /\ r.op = "toggleProductSoldStatus"
    /\ updatedProduct.id = r.id
    /\ ml' = ActionSettled(ml, r,
                [i \in DOMAIN ml.listings |->
                    IF ml.listings[i].id = r.id
                      THEN [ml.listings[i] EXCEPT !.is_sold = updatedProduct.is_sold]
                      ELSE ml.listings[i]],
                IF r.sold THEN "LISTING_SOLD" ELSE "LISTING_AVAILABLE")
    /\ UNCHANGED <<token, call, last, rt, px, cc, vh, dlg, sell, edit, la>>

\* toggleProductSoldStatus(id, {is_sold: sold}) rejects
ToggleSoldRejects(r) ==
    /\ ml.mounted
    /\ r \in ml.reqs
    /\ r.op = "toggleProductSoldStatus"
    /\ ml' = ActionSettled(ml, r, ml.listings, "Failed to update listing")
    /\ UNCHANGED <<token, call, last, rt, px, cc, vh, dlg, sell, edit, la>>

ListingsInit ==
    /\ ApiIdle
    /\ dlg = NotMounted /\ sell = NotMounted /\ edit = NotMounted /\ la = NotMounted
    /\ ml \in {MyListingsMounted(is_sold) : is_sold \in [1..MaxListings -> BOOLEAN]}

\* The cards call onToggleSold with the negation of the listing's is_sold
ListingsNext ==
    \/ \E id \in 1..MaxListings : MyListings_handleDelete(id)
    \/ \E i \in DOMAIN ml.listings :
            MyListings_handleToggleSold(ml.listings[i].id, ~ml.listings[i].is_sold)
    \/ \E r \in ml.reqs : DeleteProductResolves(r)
    \/ \E r \in ml.reqs : DeleteProductRejects(r)
    \/ \E r \in ml.reqs, is_sold \in BOOLEAN :
            ToggleSoldResolves(r, [id |-> r.id, is_sold |-> is_sold])
    \/ \E r \in ml.reqs : ToggleSoldRejects(r)

ListingsSpec == ListingsInit /\ [][ListingsNext]_vars

\* A delete or a toggle failed in this step
ActionFailed ==
    /\ ml'.reqs # ml.reqs
    /\ ml'.reqs \subseteq ml.reqs
    /\ ml'.toast \in {"Failed to delete listing", "Failed to update listing"}

\* C27: while a delete or sold-toggle request of a listing is in flight the
\* card of that listing has loading = true (actionLoading equals its id),
\* whatever starts or settles for the other listings, and a failed delete or
\* toggle leaves listings unchanged.
C27_CardLoadsUntilItsRequestSettles ==
    [][/\ \A r \in ml'.reqs : CardLoading(ml', r.id)
       /\ ActionFailed => ml'.listings = ml.listings]_vars

----------------------------------------------------------------------------
(* ListingActions (components/ui/listing-actions.tsx): one instance with its  *)
(* two ConfirmDialogs.  listing, loading and disabled are the props, pending  *)
(* the calls of onDelete and onToggleSold that have not settled, in the       *)
(* order they were made; edited says that onEdit was called.                  *)

ListingActionsMounted(is_sold, loading, disabled) ==
    [mounted |-> TRUE,
     listing |-> [id |-> 1, is_sold |-> is_sold],
     loading |-> loading,
     disabled |-> disabled,
     deleteDialogOpen |-> FALSE,
     soldDialogOpen |-> FALSE,
     actionLoading |-> Null,
     pending |-> <<>>,
     edited |-> FALSE]

\* const isLoading = loading || actionLoading !== null
isLoading(s) == s.loading \/ s.actionLoading # Null

\* const isDisabled = disabled || isLoading
isDisabled(s) == s.disabled \/ isLoading(s)

Dialogs == {"delete", "sold"}

\* The props the instance passes to its ConfirmDialog: open, onOpenChange,
\* onConfirm and loading; it passes neither disabled nor onCancel
DialogProps(s, dialog) ==
    [open |-> IF dialog = "delete" THEN s.deleteDialogOpen ELSE s.soldDialogOpen,
     loading |-> s.actionLoading = S(dialog),
     disabled |-> FALSE,
     onCancel |-> FALSE,
     onOpenChange |-> TRUE]

\* handleEdit
ListingActions_handleEdit(s) ==
    IF ~s.loading /\ ~s.disabled THEN [s EXCEPT !.edited = TRUE] ELSE s

\* handleDelete, up to its await
ListingActions_handleDelete(s) ==
    IF ~s.loading /\ ~s.disabled
        THEN [s EXCEPT !.actionLoading = S("delete"),
                       !.pending = Append(@, Called("onDelete", <<s.listing.id>>))]
        ELSE s

\* handleToggleSold, up to its await
ListingActions_handleToggleSold(s) ==
    IF ~s.loading /\ ~s.disabled
        THEN [s EXCEPT !.actionLoading = S("sold"),
                       !.pending = Append(@, Called("onToggleSold",
                                                   <<s.listing.id, ~s.listing.is_sold>>))]
        ELSE s

\* The instance after a ConfirmDialog made the calls: onOpenChange is the
\* setter of the dialog's open state, onConfirm the handler of the dialog
AfterDialogCalls(s, dialog, calls) ==
    LET open == OpenAfter(DialogProps(s, dialog).open, calls)
        t == IF dialog = "delete" THEN [s EXCEPT !.deleteDialogOpen = open]
                                  ELSE [s EXCEPT !.soldDialogOpen = open]
    IN IF \E i \in DOMAIN calls : calls[i].f = "onConfirm"
         THEN IF dialog = "delete" THEN ListingActions_handleDelete(t)
                                   ELSE ListingActions_handleToggleSold(t)
         ELSE t

\* The call pending[i] has settled: the rest of the try block when it resolved,
\* and the finally block
AfterCallbackSettled(s, i, resolved) ==
    LET f == s.pending[i].f
    IN [s EXCEPT !.pending = RemoveAt(@, i),
                 !.deleteDialogOpen = IF resolved /\ f = "onDelete" THEN FALSE ELSE @,
                 !.soldDialogOpen = IF resolved /\ f = "onToggleSold" THEN FALSE ELSE @,
                 !.actionLoading = Null]

\* A click on the Edit button
EditButtonClick ==
    /\ la.mounted
    /\ ~isDisabled(la)
    /\ la' = ListingActions_handleEdit(la)
    /\ UNCHANGED <<token, call, last, rt, px, cc, vh, dlg, sell, edit, ml>>
\* A click on the Mark Sold / Mark Available button
SoldButtonClick ==
    /\ la.mounted
    /\ ~isDisabled(la)
    /\ la' = [la EXCEPT !.soldDialogOpen = TRUE]
    /\ UNCHANGED <<token, call, last, rt, px, cc, vh, dlg, sell, edit, ml>>
\* A click on the Delete button
DeleteButtonClick ==
    /\ la.mounted
    /\ ~isDisabled(la)
    /\ la' = [la EXCEPT !.deleteDialogOpen = TRUE]
    /\ UNCHANGED <<token, call, last, rt, px, cc, vh, dlg, sell, edit, ml>>
\* A click on the confirm button of an open dialog
DialogConfirmClick(dialog) ==
    /\ la.mounted
    /\ DialogProps(la, dialog).open
    /\ Len(la.pending) < MaxInFlight
    /\ la' = AfterDialogCalls(la, dialog, handleConfirm(DialogProps(la, dialog)))
    /\ UNCHANGED <<token, call, last, rt, px, cc, vh, dlg, sell, edit, ml>>
\* A click on the cancel button of an open dialog
DialogCancelClick(dialog) ==
    /\ la.mounted
    /\ DialogProps(la, dialog).open
    /\ la' = AfterDialogCalls(la, dialog, handleCancel(DialogProps(la, dialog)))
    /\ UNCHANGED <<token, call, last, rt, px, cc, vh, dlg, sell, edit, ml>>
\* An open dialog asks to change its open state (Escape)
DialogOpenChange(dialog, newOpen) ==
    /\ la.mounted
    /\ DialogProps(la, dialog).open
    /\ la' = AfterDialogCalls(la, dialog, handleOpenChange(DialogProps(la, dialog), newOpen))
    /\ UNCHANGED <<token, call, last, rt, px, cc, vh, dlg, sell, edit, ml>>
\* The promise of the call pending[i] resolves
CallbackResolves(i) ==
    /\ la.mounted
    /\ i \in DOMAIN la.pending
    /\ la' = AfterCallbackSettled(la, i, TRUE)
    /\ UNCHANGED <<token, call, last, rt, px, cc, vh, dlg, sell, edit, ml>>
\* The promise of the call pending[i] rejects
CallbackRejects(i) ==
    /\ la.mounted
    /\ i \in DOMAIN la.pending
    /\ la' = AfterCallbackSettled(la, i, FALSE)
    /\ UNCHANGED <<token, call, last, rt, px, cc, vh, dlg, sell, edit, ml>>
\* The parent renders the instance again with other props
ParentRerenders(is_sold, loading, disabled) ==
    /\ la.mounted
    /\ la' = [la EXCEPT !.listing.is_sold = is_sold,
                        !.loading = loading,
                        !.disabled = disabled]
    /\ la' # la
    /\ UNCHANGED <<token, call, last, rt, px, cc, vh, dlg, sell, edit, ml>>
ActionsInit ==
    /\ ApiIdle
    /\ dlg = NotMounted /\ sell = NotMounted /\ edit = NotMounted /\ ml = NotMounted
    /\ la \in {ListingActionsMounted(is_sold, loading, disabled) :
                  is_sold \in BOOLEAN, loading \in BOOLEAN, disabled \in BOOLEAN}

ActionsNext ==
    \/ EditButtonClick
    \/ SoldButtonClick
    \/ DeleteButtonClick
    \/ \E dialog \in Dialogs : DialogConfirmClick(dialog)
    \/ \E dialog \in Dialogs : DialogCancelClick(dialog)
    \/ \E dialog \in Dialogs, newOpen \in BOOLEAN : DialogOpenChange(dialog, newOpen)
    \/ \E i \in 1..MaxInFlight : CallbackResolves(i)
    \/ \E i \in 1..MaxInFlight : CallbackRejects(i)
    \/ \E is_sold \in BOOLEAN, loading \in BOOLEAN, disabled \in BOOLEAN :
            ParentRerenders(is_sold, loading, disabled)

ActionsSpec == ActionsInit /\ [][ActionsNext]_vars

\* A callback is started in this step: the call made last
CallbackStarted == Len(la'.pending) > Len(la.pending)
StartedCall == la'.pending[Len(la'.pending)]

\* C29: at most one of onDelete / onToggleSold is in flight; actionLoading is
\* non-null exactly while a callback is in flight and is null after a callback
\* settled, resolved or rejected; a settling callback closes its dialog when it
\* resolves and leaves the dialogs as they are when it rejects; no callback
\* starts while the loading or the disabled prop is true; onToggleSold is
\* called with the negation of the listing's is_sold.
C29_OneCallbackInFlight ==
    [][/\ Len(la'.pending) <= 1
       /\ (la'.actionLoading # Null) <=> (la'.pending # <<>>)
       /\ \A i \in DOMAIN la.pending :
             /\ (CallbackResolves(i) \/ CallbackRejects(i)) => la'.actionLoading = Null
             /\ CallbackResolves(i) =>
                    ~DialogProps(la', IF la.pending[i].f = "onDelete"
                                        THEN "delete" ELSE "sold").open
             /\ CallbackRejects(i) =>
                    /\ la'.deleteDialogOpen = la.deleteDialogOpen
                    /\ la'.soldDialogOpen = la.soldDialogOpen
       /\ CallbackStarted =>
             /\ ~la.loading /\ ~la.disabled
             /\ StartedCall.f = "onToggleSold" =>
                    StartedCall.args = <<la.listing.id, ~la.listing.is_sold>>
      ]_vars

====
